---- MODULE Spec2Model ----
(***************************************************************************)
(* Verification model of the PRGsheet reconciliation scripts.              *)
(*                                                                         *)
(* Text values are sequences of one-character strings, so that trimming,   *)
(* concatenation and string ordering are computed the way the scripts      *)
(* compute them.  A table (DataFrame / worksheet) is a record              *)
(*   [cols |-> set of column names, rows |-> sequence of records]          *)
(* and every record of a table is a function on the table's columns.       *)
(***************************************************************************)
EXTENDS Integers, Sequences, FiniteSets, TLC

VARIABLES
    pc,            \* position of the running script
    yeni_df,       \* SSH: freshly read table (argument yeni_df)
    mevcut_df,     \* SSH: table read from the Ssh worksheet (argument mevcut_df)
    son_df,        \* SSH: what verileri_birlestir returned
    ssh_sayfasi,   \* SSH: the persisted 'Ssh' worksheet
    okuma,         \* how the last read of the persisted worksheet ended
    orders,        \* BekleyenFast: what get_orders returned
    bekleyen_sayfasi,  \* BekleyenFast: data rows of the persisted 'Bekleyen' worksheet
    malzeme,       \* Stok: master material table
    bekleyen,      \* Stok: processed pending-order lines
    malzeme_toplam_borc,   \* Stok: committed quantity per material
    plan,          \* Stok: planned quantity per material
    liste,         \* Stok: price list
    stok_df,       \* Stok: what stok_verilerini_duzenle_ve_kaydet returned
    fiyatlar,      \* Stok: the price cells of one merged row
    yuzdeler,      \* Stok: the guarded percentage cells computed from them
    plan_sayfasi,  \* Stok: the 'Plan' worksheet as read, cells as text
    bekleyen_ham,  \* Stok: the 'Bekleyen' worksheet rows joined with the barcode table
    stok_sayfasi,  \* Stok: the persisted 'Stok' worksheet
    olaylar,       \* Stok: what went wrong during the run of main
    basari,        \* Stok: what main returned
    productId,     \* Bekleyen: the productId cells of the fetched orders
    Malzeme_sutunu,    \* Bekleyen: the 'Malzeme' column made from them
    all_orders,    \* Bekleyen: what the API returned to get_orders
    cagri,         \* Siparisler/Siparis: the call in progress and where it stands
    retry_count,   \* Siparisler/Siparis: the local retry_count of that call
    denemeler,     \* Siparisler/Siparis: how each attempt of the call ended
    beklemeler,    \* Siparisler/Siparis: the time.sleep durations of the call
    ilk_df,         \* BekleyenAPI: self.ilk_df, the 'Bekleyen' rows loaded at start
    ayar_sayfasi,    \* Ayar: the rows of the Ayar worksheet
    settings_cache,    \* central_config: self.settings_cache
    local_cache,    \* central_config: the .settings_cache file
    donen,    \* central_config: what the last get_settings returned
    son_cagri,    \* central_config: the last call on the manager
    montaj_raporu,    \* Montaj: the rows of Montaj Raporu.xlsx
    montaj_sayfasi,    \* Montaj: the data rows of the Montaj worksheet, cells as text
    new_data,    \* Montaj: what read_montaj_raporu returned
    existing_data,    \* Montaj: what read_montaj_from_sheets returned
    final_data,    \* Montaj: what merge_and_update_data returned
    okc_sayfasi,    \* OKC: the data rows of the OKC worksheet, cells as text
    yeni_veri,    \* OKC: the rows read from the chosen Excel file
    prosap_df,    \* Irsaliye: the processed supplier invoices
    mikro_df,    \* Irsaliye: the processed ERP delivery notes
    significant_diff,    \* Irsaliye: what merge_and_analyze_differences returned
    baglantilar,    \* Siparisler/Siparis: how often each opened connection was closed
    govde_hatasi,    \* Siparisler/Siparis: the error raised in the with body
    sap_klasoru,    \* SAP_Kodu_Olustur: the sapN.xlsx files of the output directory, by N
    processed_df,    \* SAP_Kodu_Olustur: what process_sap_data returned in the last run
    sap_calisma    \* SAP_Kodu_Olustur: how the last run ended and with which chunk size

sshVars == <<yeni_df, mevcut_df, son_df, ssh_sayfasi>>

fastVars == <<orders, bekleyen_sayfasi>>

stokVars == <<malzeme, bekleyen, malzeme_toplam_borc, plan, liste, stok_df>>

yuzdeVars == <<fiyatlar, yuzdeler>>

\* The variables of the scripts modelled further down.
runVars == <<bekleyen_ham, stok_sayfasi, olaylar, basari>>

kodVars == <<productId, Malzeme_sutunu>>

retryVars == <<cagri, retry_count, denemeler, beklemeler>>

\* The variables of the remaining scripts.
ayarVars == <<ayar_sayfasi, settings_cache, local_cache, donen, son_cagri>>

montajVars == <<montaj_raporu, montaj_sayfasi, new_data, existing_data, final_data>>

okcVars == <<okc_sayfasi, yeni_veri>>

irsaliyeVars == <<prosap_df, mikro_df, significant_diff>>

baglantiVars == <<baglantilar, govde_hatasi>>

sapVars == <<sap_klasoru, processed_df, sap_calisma>>

yeniVars == <<ayarVars, montajVars, okcVars, irsaliyeVars, baglantiVars, sapVars>>

eskiVars ==
    <<okuma, sshVars, fastVars, stokVars, yuzdeVars, plan_sayfasi, runVars, kodVars,
      all_orders, retryVars, ilk_df>>

ayarDisi == <<eskiVars, montajVars, okcVars, irsaliyeVars, baglantiVars, sapVars>>

montajDisi == <<eskiVars, ayarVars, okcVars, irsaliyeVars, baglantiVars, sapVars>>

okcDisi == <<eskiVars, ayarVars, montajVars, irsaliyeVars, baglantiVars, sapVars>>

irsaliyeDisi == <<eskiVars, ayarVars, montajVars, okcVars, baglantiVars, sapVars>>

baglantiDisi == <<eskiVars, ayarVars, montajVars, okcVars, irsaliyeVars, sapVars>>

sapDisi == <<eskiVars, ayarVars, montajVars, okcVars, irsaliyeVars, baglantiVars>>

ayarOtesi == <<montajVars, okcVars, irsaliyeVars, baglantiVars, sapVars>>

montajOtesi == <<ayarVars, okcVars, irsaliyeVars, baglantiVars, sapVars>>

okcOtesi == <<ayarVars, montajVars, irsaliyeVars, baglantiVars, sapVars>>

irsaliyeOtesi == <<ayarVars, montajVars, okcVars, baglantiVars, sapVars>>

baglantiOtesi == <<ayarVars, montajVars, okcVars, irsaliyeVars, sapVars>>

sapOtesi == <<ayarVars, montajVars, okcVars, irsaliyeVars, baglantiVars>>

sonVars == <<retryVars, ilk_df, yeniVars>>

ekVars == <<yuzdeVars, plan_sayfasi, runVars, kodVars, all_orders, sonVars>>

vars == <<pc, okuma, sshVars, fastVars, stokVars, ekVars>>

-----------------------------------------------------------------------------
(* Bounds of the model *)

\* longest table handed to an operation
MaxRows == 2

\* most rows a worksheet of the model holds
MaxSheetRows == 3

\* all sequences over S of length at most n
SeqsUpTo(S, n) == UNION {[1..k -> S] : k \in 0..n}

-----------------------------------------------------------------------------
(* Text helpers *)

\* code points of the characters the model uses (Python compares str by code point)
Ord(c) ==
    CASE c = " " -> 32
      [] c = "-" -> 45
      [] c = "." -> 46
      [] c = "0" -> 48
      [] c = "1" -> 49
      [] c = "2" -> 50
      [] c = "3" -> 51
      [] c = "4" -> 52
      [] c = "5" -> 53
      [] c = "6" -> 54
      [] c = "7" -> 55
      [] c = "8" -> 56
      [] c = "9" -> 57
      [] c = "a" -> 97
      [] c = "b" -> 98
      [] c = "k" -> 107
      [] c = "o" -> 111
      [] OTHER -> 255

\* Python's s1 < s2 on str
RECURSIVE StrLess(_, _)
StrLess(s, t) ==
    IF t = <<>> THEN FALSE
    ELSE IF s = <<>> THEN TRUE
    ELSE IF Ord(Head(s)) < Ord(Head(t)) THEN TRUE
    ELSE IF Ord(Head(s)) > Ord(Head(t)) THEN FALSE
    ELSE StrLess(Tail(s), Tail(t))

RECURSIVE LStrip(_)
LStrip(s) == IF s # <<>> /\ Head(s) = " " THEN LStrip(Tail(s)) ELSE s

RECURSIVE RStrip(_)
RStrip(s) ==
    IF s # <<>> /\ s[Len(s)] = " " THEN RStrip(SubSeq(s, 1, Len(s) - 1)) ELSE s

\* str.strip()
Strip(s) == LStrip(RStrip(s))

\* the value pandas puts where a frame has no such column
NaN == <<"NaN">>

-----------------------------------------------------------------------------
(* SSH.py: column names *)

ServisBakimID == "Servis Bakim ID"
SiparisNo == "Yedek Parca Siparis No"
UrunID == "Urun ID"
YedekParcaUrunID == "Yedek Parca Urun ID"
ParcaDurumu == "Parca Durumu"
UrunAdi == "Urun Adi"

anahtar_sutunlar == <<ServisBakimID, SiparisNo, UrunID, YedekParcaUrunID>>

AllCols == {ServisBakimID, SiparisNo, UrunID, YedekParcaUrunID, ParcaDurumu, UrunAdi}

AnahtarSet == {anahtar_sutunlar[i] : i \in 1..Len(anahtar_sutunlar)}

BosDf == [cols |-> {}, rows |-> <<>>]

\* DataFrame.empty: no rows or no columns
Empty(df) == df.rows = <<>> \/ df.cols = {}

\* what a call returned: a table, or an exception that left the function
Sonuc(df) == [hata |-> FALSE, df |-> df]

Hata == [hata |-> TRUE, df |-> BosDf]

\* Position at which a stable descending sort puts key k into an already sorted
\* run: in front of the first row whose key is smaller.
RECURSIVE InsertPos(_, _, _)
InsertPos(rows, k, i) ==
    IF i > Len(rows) THEN i
    ELSE IF StrLess(rows[i][ServisBakimID], k) THEN i
    ELSE InsertPos(rows, k, i + 1)

InsertDesc(rows, r) ==
    LET p == InsertPos(rows, r[ServisBakimID], 1)
    IN  SubSeq(rows, 1, p - 1) \o <<r>> \o SubSeq(rows, p, Len(rows))

RECURSIVE SortDesc(_)
SortDesc(rows) ==
    IF rows = <<>> THEN <<>>
    ELSE InsertDesc(SortDesc(SubSeq(rows, 1, Len(rows) - 1)), rows[Len(rows)])

\* df.sort_values(by='Servis Bakım ID', ascending=False): the column is text, so
\* the order is Python's string order; KeyError when the column is missing.
\* Rows with equal keys keep their order (tables here are far below the size at
\* which the default sort stops being stable).
sort_values(df) ==
    IF ServisBakimID \notin df.cols THEN Hata
    ELSE Sonuc([cols |-> df.cols, rows |-> SortDesc(df.rows)])

\* df[sutun] = df[sutun].astype(str).str.strip() for the four key columns
StripKeys(df) ==
    [cols |-> df.cols,
     rows |-> [i \in 1..Len(df.rows) |->
                 [c \in df.cols |->
                    IF c \in AnahtarSet THEN Strip(df.rows[i][c]) ELSE df.rows[i][c]]]]

\* ''.join of the four key columns of a row, in the order of anahtar_sutunlar
BirlestirmeAnahtari(r) ==
    r[anahtar_sutunlar[1]] \o r[anahtar_sutunlar[2]]
        \o r[anahtar_sutunlar[3]] \o r[anahtar_sutunlar[4]]

KeySet(rows) == {BirlestirmeAnahtari(rows[i]) : i \in 1..Len(rows)}

\* the distinct keys of rows, each at its first occurrence
RECURSIVE KeyOrder(_)
KeyOrder(rows) ==
    IF rows = <<>> THEN <<>>
    ELSE LET rest == KeyOrder(SubSeq(rows, 1, Len(rows) - 1))
             k == BirlestirmeAnahtari(rows[Len(rows)])
         IN  IF \E i \in 1..Len(rest) : rest[i] = k THEN rest ELSE Append(rest, k)

RowsWithKey(rows, k) == SelectSeq(rows, LAMBDA r : BirlestirmeAnahtari(r) = k)

RowsWithKeyIn(rows, K) == SelectSeq(rows, LAMBDA r : BirlestirmeAnahtari(r) \in K)

\* pd.concat of frames with different columns: the union of the columns, NaN
\* where a row's frame had no such column
Pad(rows, from, to) ==
    [i \in 1..Len(rows) |-> [c \in to |-> IF c \in from THEN rows[i][c] ELSE NaN]]

\* a matched key whose status column is not copied from the existing row
GuncellenenKayit_tasimasiz(y, m, anahtar) == RowsWithKey(y.rows, anahtar)

\* One matched key (SSH.py 283-289): the new rows of the key, with "Parça
\* Durumu" taken from the first existing row of the key.
GuncellenenKayit(y, m, anahtar) ==
    LET yeni_kayit == RowsWithKey(y.rows, anahtar)
        mevcut_kayit == RowsWithKey(m.rows, anahtar)
    IN  IF ParcaDurumu \in m.cols /\ ParcaDurumu \in y.cols
        THEN [i \in 1..Len(yeni_kayit) |->
                [yeni_kayit[i] EXCEPT ![ParcaDurumu] = mevcut_kayit[1][ParcaDurumu]]]
        ELSE yeni_kayit

\* The matched keys one after the other.  The script walks a Python set, whose
\* order is unspecified; the model walks the keys as they first occur in the new
\* table.  Only the order of rows with different keys depends on it.
RECURSIVE Guncellenenler(_, _, _)
Guncellenenler(y, m, keys) ==
    IF keys = <<>> THEN <<>>
    ELSE GuncellenenKayit(y, m, Head(keys)) \o Guncellenenler(y, m, Tail(keys))

guncelleme_anahtarlari(y, m) == KeySet(m.rows) \cap KeySet(y.rows)

\* every new key goes to the insert set, also one the existing table holds
ekleme_anahtarlari_hepsi(y, m) == KeySet(y.rows)

ekleme_anahtarlari(y, m) == KeySet(y.rows) \ KeySet(m.rows)

\* the retain set computed with the operands of the insert set
saklama_anahtarlari_kopya(y, m) == KeySet(y.rows) \ KeySet(m.rows)

saklama_anahtarlari(y, m) == KeySet(m.rows) \ KeySet(y.rows)

\* SSH.py 260-313: the merge proper, on tables that have the four key columns
Birlestir(yeni, mevcut) ==
    LET y == StripKeys(yeni)
        m == StripKeys(mevcut)
        gunc == SelectSeq(KeyOrder(y.rows), LAMBDA k : k \in guncelleme_anahtarlari(y, m))
        tum == y.cols \cup m.cols
        son == Pad(Guncellenenler(y, m, gunc), y.cols, tum)
                 \o Pad(RowsWithKeyIn(y.rows, ekleme_anahtarlari(y, m)), y.cols, tum)
                 \o Pad(RowsWithKeyIn(m.rows, saklama_anahtarlari(y, m)), m.cols, tum)
    IN  sort_values([cols |-> tum, rows |-> son])

\* SshManager.verileri_birlestir
verileri_birlestir(yeni, mevcut) ==
    IF Empty(mevcut) THEN sort_values(yeni)
    ELSE IF \E s \in AnahtarSet : s \notin yeni.cols \/ s \notin mevcut.cols
         THEN sort_values(yeni)
    ELSE Birlestir(yeni, mevcut)

-----------------------------------------------------------------------------
(* SSH.py: the tables the merge is applied to *)

Kayit(sid, sip, durum, ad) ==
    (ServisBakimID :> sid) @@ (SiparisNo :> sip) @@ (UrunID :> <<"5">>)
        @@ (YedekParcaUrunID :> <<"7">>) @@ (ParcaDurumu :> durum) @@ (UrunAdi :> ad)

\* Rows as excel_verisi_oku returns them: key columns are str(int(float(x))),
\* "Parça Durumu" is empty.  The pairs ("1","23") and ("12","3") are two
\* different order lines.
YeniKayitlar ==
    {Kayit(sid, sip, <<>>, <<"b">>) : sid \in {<<"1">>, <<"1", "2">>},
                                      sip \in {<<"3">>, <<"2", "3">>}}

\* Rows as they stand in the worksheet: an operator may have typed a status,
\* and a cell may carry a trailing blank.
MevcutKayitlar ==
    {Kayit(sid, sip, durum, <<"a">>) : sid \in {<<"1">>, <<"1", "2", " ">>},
                                       sip \in {<<"3">>, <<"2", "3">>},
                                       durum \in {<<>>, <<"o", "k">>}}

Project(r, cols) == [c \in cols |-> r[c]]

Tablolar(kayitlar, colsets) ==
    {[cols |-> cs, rows |-> [i \in 1..Len(q) |-> Project(q[i], cs)]] :
        cs \in colsets, q \in SeqsUpTo(kayitlar, MaxRows)}

YeniTablolar ==
    Tablolar(YeniKayitlar,
             {AllCols, AllCols \ {ServisBakimID}, AllCols \ {YedekParcaUrunID}})

MevcutTablolar == Tablolar(MevcutKayitlar, {AllCols, AllCols \ {UrunID}})

-----------------------------------------------------------------------------
(* SSH.py: verileri_birlestir applied to arbitrary bounded tables *)

\* No price cells have been given to the percentage computation.
YuzdeBos ==
    /\ fiyatlar = <<>>
    /\ yuzdeler = <<>>

\* The scripts modelled further down have not run.
RunBos ==
    /\ bekleyen_ham = BosDf
    /\ stok_sayfasi = BosDf
    /\ olaylar = {}
    /\ basari = "yok"

KodBos ==
    /\ productId = <<>>
    /\ Malzeme_sutunu = <<>>

CagriYok == [islem |-> "yok", durum |-> "yok", hata |-> "yok", atildi |-> FALSE]

RetryBos ==
    /\ cagri = CagriYok
    /\ retry_count = 0
    /\ denemeler = <<>>
    /\ beklemeler = <<>>

\* The remaining scripts have not been started.
AyarBos ==
    /\ ayar_sayfasi = <<>>
    /\ settings_cache = <<>>
    /\ local_cache = [var |-> FALSE, veri |-> <<>>]
    /\ donen = <<>>
    /\ son_cagri = [islem |-> "yok", use_cache |-> TRUE, sayfa_acik |-> TRUE]

MontajBos ==
    /\ montaj_raporu = <<>>
    /\ montaj_sayfasi = <<>>
    /\ new_data = <<>>
    /\ existing_data = <<>>
    /\ final_data = <<>>

OkcBos ==
    /\ okc_sayfasi = <<>>
    /\ yeni_veri = <<>>

IrsaliyeBos ==
    /\ prosap_df = <<>>
    /\ mikro_df = <<>>
    /\ significant_diff = <<>>

BaglantiBos ==
    /\ baglantilar = <<>>
    /\ govde_hatasi = [hata |-> "yok", deneme |-> 0]

SapBos ==
    /\ sap_klasoru = <<>>
    /\ processed_df = <<>>
    /\ sap_calisma = [durum |-> "yok", chunk_size |-> 0]

YeniBos == AyarBos /\ MontajBos /\ OkcBos /\ IrsaliyeBos /\ BaglantiBos /\ SapBos

AyarOtesiBos == MontajBos /\ OkcBos /\ IrsaliyeBos /\ BaglantiBos /\ SapBos

MontajOtesiBos == AyarBos /\ OkcBos /\ IrsaliyeBos /\ BaglantiBos /\ SapBos

OkcOtesiBos == AyarBos /\ MontajBos /\ IrsaliyeBos /\ BaglantiBos /\ SapBos

IrsaliyeOtesiBos == AyarBos /\ MontajBos /\ OkcBos /\ BaglantiBos /\ SapBos

BaglantiOtesiBos == AyarBos /\ MontajBos /\ OkcBos /\ IrsaliyeBos /\ SapBos

SapOtesiBos == AyarBos /\ MontajBos /\ OkcBos /\ IrsaliyeBos /\ BaglantiBos

SonBos == RetryBos /\ ilk_df = <<>> /\ YeniBos

EkBos ==
    /\ YuzdeBos /\ plan_sayfasi = BosDf /\ RunBos /\ KodBos /\ all_orders = <<>>
    /\ SonBos

\* The stock reconciliation has not been given any table.
StokBos ==
    /\ malzeme = BosDf
    /\ bekleyen = BosDf
    /\ malzeme_toplam_borc = BosDf
    /\ plan = BosDf
    /\ liste = BosDf
    /\ stok_df = Sonuc(BosDf)

InitMerge ==
    /\ pc = "giris"
    /\ yeni_df \in YeniTablolar
    /\ mevcut_df \in MevcutTablolar
    /\ son_df = Sonuc(BosDf)
    /\ ssh_sayfasi = BosDf
    /\ okuma = "yok"
    /\ orders = <<>>
    /\ bekleyen_sayfasi = <<>>
    /\ StokBos
    /\ EkBos

\* The call.  yeni_df and mevcut_df keep the arguments as they were passed.
VerileriBirlestir ==
    /\ pc = "giris"
    /\ son_df' = verileri_birlestir(yeni_df, mevcut_df)
    /\ pc' = "cikis"
    /\ UNCHANGED <<yeni_df, mevcut_df, ssh_sayfasi, okuma, fastVars, stokVars, ekVars>>

NextMerge == VerileriBirlestir

SpecMerge == InitMerge /\ [][NextMerge]_vars

-----------------------------------------------------------------------------
(* Claims about verileri_birlestir as a function (SpecMerge) *)

Count(rows, r) == Cardinality({i \in 1..Len(rows) : rows[i] = r})

\* the same rows, each as often, in any order
SameRows(a, b) ==
    /\ Len(a) = Len(b)
    /\ \A i \in 1..Len(a) : Count(a, a[i]) = Count(b, a[i])

AnahtarlarTam == AnahtarSet \subseteq yeni_df.cols /\ AnahtarSet \subseteq mevcut_df.cols

\* keys of a table that has the four key columns
Keys(df) == KeySet(StripKeys(df).rows)

C1_Pre == pc = "cikis" /\ ~Empty(yeni_df) /\ ~Empty(mevcut_df) /\ AnahtarlarTam

\* C1: for non-empty old and new tables with the four key columns, the Update,
\* Insert and Retain key sets are pairwise disjoint, their union is
\* keys(O) \cup keys(N), and the keys of the returned table are that union.
C1_PartitionExhaustive ==
    C1_Pre =>
        LET y == StripKeys(yeni_df)
            m == StripKeys(mevcut_df)
            U == guncelleme_anahtarlari(y, m)
            I == ekleme_anahtarlari(y, m)
            R == saklama_anahtarlari(y, m)
        IN  /\ U \cap I = {} /\ U \cap R = {} /\ I \cap R = {}
            /\ U \cup I \cup R = Keys(mevcut_df) \cup Keys(yeni_df)
            /\ ~son_df.hata
            /\ KeySet(son_df.df.rows) = Keys(mevcut_df) \cup Keys(yeni_df)

\* a merge in which all three partitions are inhabited
C1_Witness ==
    /\ C1_Pre
    /\ ~son_df.hata
    /\ Keys(mevcut_df) \cap Keys(yeni_df) # {}
    /\ Keys(yeni_df) \ Keys(mevcut_df) # {}
    /\ Keys(mevcut_df) \ Keys(yeni_df) # {}

C2_Pre ==
    /\ pc = "cikis" /\ ~Empty(mevcut_df) /\ AnahtarlarTam
    /\ ParcaDurumu \in yeni_df.cols /\ ParcaDurumu \in mevcut_df.cols

\* C2: for every key present in both tables, the rows returned for the key are
\* the new table's rows of that key with "Parca Durumu" replaced by the existing
\* table's value for the key (the first existing row's, where the existing table
\* holds the key more than once) and every other column as in the new table.
C2_CarriedField ==
    C2_Pre =>
        /\ ~son_df.hata
        /\ \A k \in Keys(mevcut_df) \cap Keys(yeni_df) :
             LET cikan == RowsWithKey(son_df.df.rows, k)
                 yeni == RowsWithKey(yeni_df.rows, k)
                 eski == RowsWithKey(StripKeys(mevcut_df).rows, k)
                 beklenen == [i \in 1..Len(yeni) |->
                                [c \in son_df.df.cols |->
                                   IF c = ParcaDurumu THEN eski[1][ParcaDurumu]
                                   ELSE IF c \in yeni_df.cols THEN yeni[i][c]
                                   ELSE NaN]]
             IN  SameRows(cikan, beklenen)

\* a matched key whose existing status differs from the new table's
C2_Witness ==
    /\ C2_Pre
    /\ ~son_df.hata
    /\ \E i \in 1..Len(son_df.df.rows), j \in 1..Len(yeni_df.rows) :
         /\ BirlestirmeAnahtari(son_df.df.rows[i]) = BirlestirmeAnahtari(yeni_df.rows[j])
         /\ BirlestirmeAnahtari(son_df.df.rows[i]) \in Keys(mevcut_df)
         /\ son_df.df.rows[i][ParcaDurumu] = <<"o", "k">>
         /\ yeni_df.rows[j][ParcaDurumu] = <<>>
         /\ son_df.df.rows[i][UrunAdi] = <<"b">>

\* C6: when a key column is absent from the old or the new table, the merge does
\* not raise and returns exactly the new records.
C6_MissingKeyColumnDegrades ==
    (pc = "cikis" /\ ~Empty(yeni_df) /\ ~Empty(mevcut_df) /\ ~AnahtarlarTam) =>
        /\ ~son_df.hata
        /\ SameRows(son_df.df.rows, yeni_df.rows)

-----------------------------------------------------------------------------
(* SSH.py: update runs over the persisted worksheet *)

\* str.replace('.0', '')
RECURSIVE ReplaceDotZero(_)
ReplaceDotZero(s) ==
    IF Len(s) < 2 THEN s
    ELSE IF s[1] = "." /\ s[2] = "0" THEN ReplaceDotZero(SubSeq(s, 3, Len(s)))
    ELSE <<s[1]>> \o ReplaceDotZero(Tail(s))

\* str(x).replace('.0', '') if str(x).endswith('.0') else str(x)
SayisalTemizle(s) ==
    IF Len(s) >= 2 /\ s[Len(s) - 1] = "." /\ s[Len(s)] = "0" THEN ReplaceDotZero(s) ELSE s

\* the numeric columns of SSH.py that the model carries
numeric_columns == AnahtarSet

SayisalSutunlariTemizle(df) ==
    [cols |-> df.cols,
     rows |-> [i \in 1..Len(df.rows) |->
                 [c \in df.cols |->
                    IF c \in numeric_columns THEN SayisalTemizle(df.rows[i][c])
                    ELSE df.rows[i][c]]]]

\* GoogleSheetsManager.mevcut_veriyi_al: an empty frame when the read fails or the
\* sheet holds no data row; otherwise the sheet with its numeric columns cleaned
\* and a "Parça Durumu" column added if it has none.
mevcut_veriyi_al(sayfa, okundu) ==
    IF ~okundu \/ sayfa.rows = <<>> THEN BosDf
    ELSE LET df == SayisalSutunlariTemizle(sayfa)
         IN  IF ParcaDurumu \in df.cols THEN df
             ELSE [cols |-> df.cols \cup {ParcaDurumu},
                   rows |-> [i \in 1..Len(df.rows) |->
                               [c \in df.cols \cup {ParcaDurumu} |->
                                  IF c = ParcaDurumu THEN <<>> ELSE df.rows[i][c]]]]

\* GoogleSheetsManager.ssh_sayfasini_guncelle, by how far it gets:
\*   "acilamadi"      the spreadsheet cannot be opened: raises, sheet untouched
\*   "guncellenemedi" clear() succeeded and update() raised: raises, sheet cleared
\*   "tamam"          clear() and update() both succeeded
ssh_sayfasini_guncelle(sayfa, veri, yazma) ==
    CASE yazma = "acilamadi" -> sayfa
      [] yazma = "guncellenemedi" -> BosDf
      [] OTHER -> SayisalSutunlariTemizle(veri)

YazmaSonuclari == {"tamam", "acilamadi", "guncellenemedi"}

\* rows excel_verisi_oku can return
ExcelTablolari == Tablolar(YeniKayitlar, {AllCols})

InitSsh ==
    /\ pc = "bos"
    /\ yeni_df = BosDf
    /\ mevcut_df = BosDf
    /\ son_df = Sonuc(BosDf)
    /\ ssh_sayfasi = BosDf
    /\ okuma = "yok"
    /\ orders = <<>>
    /\ bekleyen_sayfasi = <<>>
    /\ StokBos
    /\ EkBos

\* run_update, first half: excel_verisi_oku returns the new table
ExcelVerisiOku ==
    /\ pc # "excel"
    /\ yeni_df' \in ExcelTablolari
    /\ pc' = "excel"
    /\ UNCHANGED <<mevcut_df, son_df, ssh_sayfasi, okuma, fastVars, stokVars, ekVars>>

\* run_update when excel_verisi_oku raises: the run fails before anything is read
\* or written
ExcelVerisiOkuHatasi ==
    /\ pc # "excel"
    /\ pc' = "hata"
    /\ UNCHANGED <<sshVars, okuma, fastVars, stokVars, ekVars>>

\* run_update, the rest of the run: read the sheet (okundu = FALSE: the read
\* failed and was swallowed), merge, and publish the merge unless it is empty.
\* The run's local tables are gone when it returns.
RunUpdate ==
    /\ pc = "excel"
    /\ \E okundu \in BOOLEAN, yazma \in YazmaSonuclari :
        LET mevcut == mevcut_veriyi_al(ssh_sayfasi, okundu)
            son == verileri_birlestir(yeni_df, mevcut)
        IN  /\ Len(son.df.rows) <= MaxSheetRows
            /\ okuma' = IF okundu THEN "okundu" ELSE "hata"
            /\ IF son.hata
               THEN pc' = "hata" /\ UNCHANGED ssh_sayfasi
               ELSE IF Empty(son.df)
               THEN pc' = "tamam" /\ UNCHANGED ssh_sayfasi
               ELSE /\ ssh_sayfasi' = ssh_sayfasini_guncelle(ssh_sayfasi, son.df, yazma)
                    /\ pc' = IF yazma = "tamam" THEN "tamam" ELSE "hata"
    /\ yeni_df' = BosDf
    /\ UNCHANGED <<mevcut_df, son_df, fastVars, stokVars, ekVars>>

\* An operator types a status into the "Parça Durumu" cell of a row
OperatorDurumGir ==
    /\ ParcaDurumu \in ssh_sayfasi.cols
    /\ \E i \in 1..Len(ssh_sayfasi.rows), d \in {<<>>, <<"o", "k">>} :
         /\ ssh_sayfasi.rows[i][ParcaDurumu] # d
         /\ ssh_sayfasi' = [ssh_sayfasi EXCEPT !.rows[i][ParcaDurumu] = d]
    /\ UNCHANGED <<pc, yeni_df, mevcut_df, son_df, okuma, fastVars, stokVars, ekVars>>

NextSsh == ExcelVerisiOku \/ ExcelVerisiOkuHatasi \/ RunUpdate \/ OperatorDurumGir

SpecSsh == InitSsh /\ [][NextSsh]_vars

\* the step that ends a run which had read its Excel file
RunCompleted == pc = "excel" /\ pc' = "tamam"

RunFailed == pc = "excel" /\ pc' = "hata"

\* durum values the sheet holds for a key
Durumlar(sayfa, k) ==
    {sayfa.rows[i][ParcaDurumu] :
        i \in {j \in 1..Len(sayfa.rows) : BirlestirmeAnahtari(sayfa.rows[j]) = k}}

\* C3: a completed update run never clobbers a manual annotation: for every key
\* of the sheet before the run, every "Parca Durumu" value persisted for the key
\* after the run was persisted for it before the run, also when the run could
\* not read the sheet.
C3_AnnotationsSurvive ==
    [][RunCompleted =>
          \A k \in KeySet(ssh_sayfasi.rows) :
              Durumlar(ssh_sayfasi', k) \subseteq Durumlar(ssh_sayfasi, k)]_vars

\* C4: after a completed update run, every key that was in the sheet before the
\* run and is not in the new source table is still in the sheet, rows unchanged.
C4_HistoricalRowsKept ==
    [][RunCompleted =>
          \A k \in KeySet(ssh_sayfasi.rows) \ KeySet(yeni_df.rows) :
              SameRows(RowsWithKey(ssh_sayfasi'.rows, k), RowsWithKey(ssh_sayfasi.rows, k))]_vars

\* C5: a run that fails leaves the previously persisted sheet untouched.
C5_FailedRunLeavesSheet ==
    [][RunFailed => ssh_sayfasi' = ssh_sayfasi]_vars


\* ---------------------------------------------------------------------
\* BekleyenFast.py: incremental synchronisation of the 'Bekleyen' sheet
\* ---------------------------------------------------------------------

MaxOrders == 2

MaxBekleyenRows == 3

\* Raw order lines as the API returns them.  Order numbers and line
\* numbers are fixed-width digit strings; orderDate1 is a date text.
OrderIds == {<<"1", "0">>, <<"1", "1">>}

OrderLineIds == {<<"1">>, <<"2">>}

OrderDates == {<<"0", "1">>, <<"0", "2">>}

OrderPool ==
    {[orderId |-> o, orderLineId |-> l, orderDate1 |-> d] :
        o \in OrderIds, l \in OrderLineIds, d \in OrderDates}

\* get_orders: first-seen-wins elimination on "orderId-orderLineId".
combination(order) == order.orderId \o <<"-">> \o order.orderLineId

RECURSIVE unique_orders(_, _)
unique_orders(fetched, seen_combinations) ==
    IF fetched = <<>> THEN <<>>
    ELSE LET order == Head(fetched)
         IN  IF combination(order) \in seen_combinations
             THEN unique_orders(Tail(fetched), seen_combinations)
             ELSE <<order>> \o unique_orders(Tail(fetched),
                                 seen_combinations \cup {combination(order)})

\* get_orders without the elimination.
get_orders_elemesiz(fetched) == fetched

get_orders(fetched) == unique_orders(fetched, {})

\* pd.to_datetime(..., errors='coerce') and .dt.strftime('%Y-%m-%d'),
\* on the day of the month.  0 stands for NaT.
Digit(c) ==
    CASE c = "0" -> 0 [] c = "1" -> 1 [] c = "2" -> 2 [] c = "3" -> 3
      [] c = "4" -> 4 [] c = "5" -> 5 [] c = "6" -> 6 [] c = "7" -> 7
      [] c = "8" -> 8 [] c = "9" -> 9 [] OTHER -> -1

to_datetime(t) ==
    IF Len(t) = 2 /\ Digit(t[1]) >= 0 /\ Digit(t[2]) >= 0
    THEN 10 * Digit(t[1]) + Digit(t[2])
    ELSE 0

DigitChar(n) ==
    CASE n = 0 -> "0" [] n = 1 -> "1" [] n = 2 -> "2" [] n = 3 -> "3"
      [] n = 4 -> "4" [] n = 5 -> "5" [] n = 6 -> "6" [] n = 7 -> "7"
      [] n = 8 -> "8" [] OTHER -> "9"

strftime(n) == IF n = 0 THEN NaN ELSE <<DigitChar(n \div 10), DigitChar(n % 10)>>

\* df.sort_values('Siparis Tarihi'): stable, ascending, NaT last.
TarihOnce(a, b) == a # 0 /\ (b = 0 \/ a < b)

RECURSIVE InsertTarih(_, _)
InsertTarih(sorted, r) ==
    IF sorted = <<>> THEN <<r>>
    ELSE IF TarihOnce(r.tarih, Head(sorted).tarih)
         THEN <<r>> \o sorted
         ELSE <<Head(sorted)>> \o InsertTarih(Tail(sorted), r)

RECURSIVE SortTarih(_)
SortTarih(rows) ==
    IF rows = <<>> THEN <<>>
    ELSE InsertTarih(SortTarih(SubSeq(rows, 1, Len(rows) - 1)), rows[Len(rows)])

\* _process_data: rename, BagKoduBekleyen = 'Satis belgesi' + 'Kalem'
\* (no separator), date parse, sort by date, date format.
BagKodu(order) == order.orderId \o order.orderLineId

process_data(ords) ==
    LET parsed == [i \in 1..Len(ords) |->
                      [order |-> ords[i], tarih |-> to_datetime(ords[i].orderDate1)]]
        sorted == SortTarih(parsed)
    IN  [i \in 1..Len(sorted) |->
            [SatisBelgesi    |-> sorted[i].order.orderId,
             Kalem           |-> sorted[i].order.orderLineId,
             SiparisTarihi   |-> strftime(sorted[i].tarih),
             BagKoduBekleyen |-> BagKodu(sorted[i].order)]]

\* _get_existing_data: the set of BagKoduBekleyen values of the sheet;
\* the empty set when reading raises.
BagKodlari(rows) == {rows[i].BagKoduBekleyen : i \in DOMAIN rows}

get_existing_data(sayfa, okundu) ==
    IF okundu THEN BagKodlari(sayfa) ELSE {}

\* _filter_new_records
filter_new_records(processed_orders, existing_codes) ==
    IF processed_orders = <<>> \/ existing_codes = {}
    THEN processed_orders
    ELSE SelectSeq(processed_orders,
                   LAMBDA order : order.BagKoduBekleyen \notin existing_codes)

\* worksheet.update(values=[header] + rows, range_name='A1'): the cells
\* of the first rows are overwritten, rows further down stay.
update_A1(sayfa, rows) == rows \o SubSeq(sayfa, Len(rows) + 1, Len(sayfa))

\* worksheet.append_rows(rows)
append_rows(sayfa, rows) == sayfa \o rows

\* save_to_sheets.  bekleyen_sayfasi holds the data rows under the
\* header row.  yazildi: whether the write call succeeded (a failure is
\* logged and swallowed).
save_to_sheets(sayfa, ords, okundu, yazildi) ==
    IF ords = <<>> THEN sayfa
    ELSE LET processed_orders == process_data(ords)
             existing_codes == get_existing_data(sayfa, okundu)
             new_records == filter_new_records(processed_orders, existing_codes)
         IN  IF new_records = <<>> THEN sayfa
             ELSE IF ~yazildi THEN sayfa
             ELSE IF existing_codes = {}
                  THEN update_A1(sayfa, new_records)
                  ELSE append_rows(sayfa, new_records)

InitFast ==
    /\ pc = "bos"
    /\ okuma = "yok"
    /\ yeni_df = BosDf
    /\ mevcut_df = BosDf
    /\ son_df = Sonuc(BosDf)
    /\ ssh_sayfasi = BosDf
    /\ orders = <<>>
    /\ bekleyen_sayfasi = <<>>
    /\ StokBos
    /\ EkBos

\* main, first half: orders = api_client.get_orders()
GetOrders ==
    /\ pc = "bos"
    /\ \E fetched \in SeqsUpTo(OrderPool, MaxOrders) :
           orders' = get_orders(fetched)
    /\ pc' = "siparis"
    /\ UNCHANGED <<okuma, sshVars, bekleyen_sayfasi, stokVars, ekVars>>

\* main, second half: api_client.save_to_sheets(orders)
SaveToSheets ==
    /\ pc = "siparis"
    /\ \E okundu \in BOOLEAN, yazildi \in BOOLEAN :
           /\ bekleyen_sayfasi' = save_to_sheets(bekleyen_sayfasi, orders, okundu, yazildi)
           /\ okuma' = IF okundu THEN "okundu" ELSE "hata"
    /\ Len(bekleyen_sayfasi') <= MaxBekleyenRows
    /\ orders' = <<>>
    /\ pc' = "bos"
    /\ UNCHANGED <<sshVars, stokVars, ekVars>>

NextFast == GetOrders \/ SaveToSheets

SpecFast == InitFast /\ [][NextFast]_vars

SaveRun == pc = "siparis" /\ pc' = "bos"

\* C7: a save_to_sheets run leaves every previously persisted row where
\* and as it was, and every row it adds has a key the sheet did not hold
\* before the run.
C7_IncrementalSync ==
    [][SaveRun =>
        /\ Len(bekleyen_sayfasi') >= Len(bekleyen_sayfasi)
        /\ SubSeq(bekleyen_sayfasi', 1, Len(bekleyen_sayfasi)) = bekleyen_sayfasi
        /\ \A i \in (Len(bekleyen_sayfasi) + 1)..Len(bekleyen_sayfasi') :
               bekleyen_sayfasi'[i].BagKoduBekleyen \notin BagKodlari(bekleyen_sayfasi)]_vars

\* C8: after any sequence of save_to_sheets runs no BagKoduBekleyen
\* value is held by more than one row of the sheet.
C8_NoDuplicateKeys ==
    \A i, j \in DOMAIN bekleyen_sayfasi :
        i # j => bekleyen_sayfasi[i].BagKoduBekleyen # bekleyen_sayfasi[j].BagKoduBekleyen


\* ---------------------------------------------------------------------
\* Stok.py: stok_verilerini_duzenle_ve_kaydet, join chain and Fazla / Ver
\* ---------------------------------------------------------------------

MaxMalzeme == 2

SapKoduUzunlugu == 10

MalzemeKodu == "Malzeme Kodu"

SAPKodu == "SAP Kodu"

DEPO == "DEPO"

BekleyenAdet == "Bekleyen Adet"

ToplamBorc == "Toplam Borc"

Adet == "Adet"

PERAKENDE == "PERAKENDE"

Bekleyen == "Bekleyen"

Borc == "Borc"

Plan == "Plan"

Fazla == "Fazla"

Ver == "Ver"

\* A numeric cell is <<n>>; a missing value (NaN / None) is <<>>.
Sayi(n) == <<n>>

Eksik == <<>>

\* Series.fillna(0) on one column.
fillna(df, sutun) ==
    [cols |-> df.cols,
     rows |-> [i \in 1..Len(df.rows) |->
                 [c \in df.cols |->
                     IF c = sutun /\ df.rows[i][c] = Eksik
                     THEN Sayi(0) ELSE df.rows[i][c]]]]

\* Series.fillna(0).astype(int) on a set of columns.
astype_int(df, sutunlar) ==
    [cols |-> df.cols,
     rows |-> [i \in 1..Len(df.rows) |->
                 [c \in df.cols |->
                     IF c \in sutunlar
                     THEN (IF df.rows[i][c] = Eksik THEN 0 ELSE df.rows[i][c][1])
                     ELSE df.rows[i][c]]]]

\* groupby(key, as_index=False).agg({val: 'sum'}): one row per key, in
\* ascending key order.
RECURSIVE SumOf(_, _, _, _)
SumOf(rows, key, val, k) ==
    IF rows = <<>> THEN 0
    ELSE (IF Head(rows)[key] = k THEN Head(rows)[val][1] ELSE 0)
         + SumOf(Tail(rows), key, val, k)

RECURSIVE SortedKeys(_)
SortedKeys(K) ==
    IF K = {} THEN <<>>
    ELSE LET m == CHOOSE x \in K : \A y \in K \ {x} : StrLess(x, y)
         IN  <<m>> \o SortedKeys(K \ {m})

\* groupby(...).agg({'Adet': 'first'}): the first row of each key.
groupby_first(df, key, val) ==
    LET ks == SortedKeys({df.rows[i][key] : i \in DOMAIN df.rows})
    IN  [cols |-> {key, val},
         rows |-> [i \in 1..Len(ks) |->
                     (key :> ks[i])
                     @@ (val :> SelectSeq(df.rows, LAMBDA r : r[key] = ks[i])[1][val])]]

groupby_sum(df, key, val) ==
    LET ks == SortedKeys({df.rows[i][key] : i \in DOMAIN df.rows})
    IN  [cols |-> {key, val},
         rows |-> [i \in 1..Len(ks) |->
                     (key :> ks[i]) @@ (val :> Sayi(SumOf(df.rows, key, val, ks[i])))]]

\* pd.merge(sol, sag, on=key, how=...): the rows of one left row.
Eslesenler(l, sag, key) ==
    LET es == SelectSeq(sag.rows, LAMBDA r : r[key] = l[key])
    IN  [i \in 1..Len(es) |-> l @@ [c \in sag.cols \ {key} |-> es[i][c]]]

Eslesmeyen(l, sag, key) == l @@ [c \in sag.cols \ {key} |-> Eksik]

RECURSIVE MergeRows(_, _, _, _)
MergeRows(solrows, sag, key, sol_korunur) ==
    IF solrows = <<>> THEN <<>>
    ELSE LET l == Head(solrows)
             es == Eslesenler(l, sag, key)
         IN  (IF es = <<>>
              THEN (IF sol_korunur THEN <<Eslesmeyen(l, sag, key)>> ELSE <<>>)
              ELSE es)
             \o MergeRows(Tail(solrows), sag, key, sol_korunur)

\* how='inner': a left row without a match is dropped.
merge_inner(sol, sag, key) ==
    [cols |-> sol.cols \cup sag.cols,
     rows |-> MergeRows(sol.rows, sag, key, FALSE)]

\* how='left': every left row is kept, in order; a left row without a
\* match gets NaN in the right table's columns; a left row with several
\* matches is repeated; right rows without a match are dropped.
merge_left(sol, sag, key) ==
    [cols |-> sol.cols \cup sag.cols,
     rows |-> MergeRows(sol.rows, sag, key, TRUE)]

\* merged_df['SAP Kodu'] = merged_df['Malzeme Kodu'].astype(str).str[:10]
Ilk(t, n) == SubSeq(t, 1, IF Len(t) < n THEN Len(t) ELSE n)

sap_kodu_ekle(df) ==
    [cols |-> df.cols \cup {SAPKodu},
     rows |-> [i \in 1..Len(df.rows) |->
                 df.rows[i] @@ (SAPKodu :> Ilk(df.rows[i][MalzemeKodu], SapKoduUzunlugu))]]

\* Series.where(x > 0, 0) without the floor.
where_tabansiz(x) == x

\* Series.where(x > 0, 0)
where_pozitif(x) == IF x > 0 THEN x ELSE 0

fazla_hesaplama(r) == r[DEPO] + r[BekleyenAdet] + r[Adet] - r[ToplamBorc]

ver_hesaplama(r) == r[ToplamBorc] - r[DEPO] - r[BekleyenAdet] - r[Adet]

numerik_sutunlar == {DEPO, BekleyenAdet, ToplamBorc, Adet, PERAKENDE}

\* rename + Fazla + Ver.  The output row.
SonSatir(r) ==
    (MalzemeKodu :> r[MalzemeKodu]) @@ (SAPKodu :> r[SAPKodu])
    @@ (DEPO :> r[DEPO]) @@ (Bekleyen :> r[BekleyenAdet])
    @@ (Borc :> r[ToplamBorc]) @@ (Plan :> r[Adet]) @@ (PERAKENDE :> r[PERAKENDE])
    @@ (Fazla :> where_pozitif(fazla_hesaplama(r)))
    @@ (Ver :> where_pozitif(ver_hesaplama(r)))

SonCols == {MalzemeKodu, SAPKodu, DEPO, Bekleyen, Borc, Plan, PERAKENDE, Fazla, Ver}

\* A column the body indexes that an input does not have: KeyError,
\* caught by the function's except, which returns an empty DataFrame.
SutunEksik(m, b, borc, p, l) ==
    \/ ~({MalzemeKodu, DEPO} \subseteq m.cols)
    \/ ~({MalzemeKodu, BekleyenAdet} \subseteq b.cols)
    \/ ~({MalzemeKodu, ToplamBorc} \subseteq borc.cols)
    \/ ~({MalzemeKodu, Adet} \subseteq p.cols)
    \/ ~({SAPKodu, PERAKENDE} \subseteq l.cols)

\* Of the three price columns TOPTAN, PERAKENDE, LISTE, which the join
\* treats alike, the model carries PERAKENDE.  The master table's other
\* columns (Malzeme Adi, EXC, SUBE, Miktar) pass through untouched and
\* are left out, as are the columns derived from the prices.  An empty
\* result is returned as pd.DataFrame().
stok_verilerini_duzenle_ve_kaydet(m, b, borc, p, l) ==
    IF SutunEksik(m, b, borc, p, l) THEN Hata
    ELSE LET grouped_bekleyen == groupby_sum(b, MalzemeKodu, BekleyenAdet)
             m1 == fillna(merge_left(m, grouped_bekleyen, MalzemeKodu), BekleyenAdet)
             m2 == fillna(merge_left(m1, borc, MalzemeKodu), ToplamBorc)
             m3 == fillna(merge_left(m2, p, MalzemeKodu), Adet)
             m4 == sap_kodu_ekle(m3)
             m5 == fillna(merge_left(m4, l, SAPKodu), PERAKENDE)
             m6 == astype_int(m5, numerik_sutunlar)
         IN  IF m6.rows = <<>> THEN Sonuc(BosDf)
             ELSE Sonuc([cols |-> SonCols,
                         rows |-> [i \in 1..Len(m6.rows) |-> SonSatir(m6.rows[i])]])

\* Material codes: a ten-character code, a longer code with the same
\* first ten characters, and another ten-character code.
KodA == <<"3", "0", "0", "0", "0", "0", "0", "0", "0", "1">>

KodB == KodA \o <<"-", "1">>

KodC == <<"3", "0", "0", "0", "0", "0", "0", "0", "0", "2">>

StokTablo(cols, rows) == [cols |-> cols, rows |-> rows]

MalzemeSatirlari ==
    {(MalzemeKodu :> k) @@ (DEPO :> d) :
        k \in {KodA, KodB, KodC}, d \in {Sayi(2)}}
    \cup {(MalzemeKodu :> KodA) @@ (DEPO :> Eksik)}

MalzemeTablolari ==
    {StokTablo({MalzemeKodu, DEPO}, rows) :
        rows \in SeqsUpTo(MalzemeSatirlari, MaxMalzeme)}

BekleyenSatirlari ==
    {(MalzemeKodu :> k) @@ (BekleyenAdet :> Sayi(1)) : k \in {KodA, KodC}}

\* pd.DataFrame() when the pending sheet could not be processed.
BekleyenTablolari ==
    {BosDf} \cup
    {StokTablo({MalzemeKodu, BekleyenAdet}, rows) :
        rows \in SeqsUpTo(BekleyenSatirlari, MaxMalzeme)}

\* The result of a groupby: keys once, ascending.
GrupTablolari(val, n) ==
    {StokTablo({MalzemeKodu, val},
               [i \in 1..Len(SortedKeys(K)) |->
                   (MalzemeKodu :> SortedKeys(K)[i]) @@ (val :> Sayi(n))]) :
        K \in SUBSET {KodA, KodC}}

\* pd.DataFrame() when there is no shipment debt.
BorcTablolari == {BosDf} \cup (GrupTablolari(ToplamBorc, 3) \ {StokTablo({MalzemeKodu, ToplamBorc}, <<>>)})

PlanTablolari == GrupTablolari(Adet, 1)

ListeSatirlari ==
    {(SAPKodu :> k) @@ (PERAKENDE :> Sayi(5)) : k \in {KodA, KodC}}

ListeTablolari ==
    {StokTablo({SAPKodu, PERAKENDE}, rows) :
        rows \in SeqsUpTo(ListeSatirlari, MaxMalzeme)}

InitStok ==
    /\ pc = "giris"
    /\ okuma = "yok"
    /\ yeni_df = BosDf
    /\ mevcut_df = BosDf
    /\ son_df = Sonuc(BosDf)
    /\ ssh_sayfasi = BosDf
    /\ orders = <<>>
    /\ bekleyen_sayfasi = <<>>
    /\ malzeme \in MalzemeTablolari
    /\ bekleyen \in BekleyenTablolari
    /\ malzeme_toplam_borc \in BorcTablolari
    /\ plan \in PlanTablolari
    /\ liste \in ListeTablolari
    /\ stok_df = Sonuc(BosDf)
    /\ EkBos

StokVerileriniDuzenle ==
    /\ pc = "giris"
    /\ stok_df' = stok_verilerini_duzenle_ve_kaydet(malzeme, bekleyen,
                      malzeme_toplam_borc, plan, liste)
    /\ pc' = "cikis"
    /\ UNCHANGED <<okuma, sshVars, fastVars, ekVars,
                   malzeme, bekleyen, malzeme_toplam_borc, plan, liste>>

NextStok == StokVerileriniDuzenle

SpecStok == InitStok /\ [][NextStok]_vars

ZincirTamam == pc = "cikis" /\ ~stok_df.hata

KodSet(df, key) == {df.rows[i][key] : i \in DOMAIN df.rows}

SatirSayisi(df, key, k) == Cardinality({i \in DOMAIN df.rows : df.rows[i][key] = k})

SagAnahtarlar ==
    KodSet(bekleyen, MalzemeKodu) \cup KodSet(malzeme_toplam_borc, MalzemeKodu)
    \cup KodSet(plan, MalzemeKodu)

Tekil(df, key) == \A k \in KodSet(df, key) : SatirSayisi(df, key, k) = 1

Carpan(k) ==
    LET n == SatirSayisi(liste, SAPKodu, Ilk(k, SapKoduUzunlugu))
    IN  IF n = 0 THEN 1 ELSE n

Max0(x) == CHOOSE m \in {0, x} : \A y \in {0, x} : m >= y

\* C10: on every output row Fazla = max(0, DEPO + Bekleyen + Plan - Borc),
\* Ver = max(0, Borc - DEPO - Bekleyen - Plan), and the two are never
\* both positive.
C10_FazlaVer ==
    ZincirTamam =>
        \A i \in DOMAIN stok_df.df.rows :
            LET r == stok_df.df.rows[i]
            IN  /\ r[Fazla] = Max0(r[DEPO] + r[Bekleyen] + r[Plan] - r[Borc])
                /\ r[Ver] = Max0(r[Borc] - r[DEPO] - r[Bekleyen] - r[Plan])
                /\ ~(r[Fazla] > 0 /\ r[Ver] > 0)

\* A result holding a row with a surplus and a row with a deficit.
C10_Witness ==
    /\ ZincirTamam
    /\ \E i, j \in DOMAIN stok_df.df.rows :
           /\ stok_df.df.rows[i][Fazla] > 0 /\ stok_df.df.rows[i][Ver] = 0
           /\ stok_df.df.rows[j][Ver] > 0 /\ stok_df.df.rows[j][Fazla] = 0


\* ---------------------------------------------------------------------
\* Stok.py: the guarded percentage columns '###' and INDIRIM
\* ---------------------------------------------------------------------

MaxFiyat == 5

\* The SSH and BekleyenFast scripts have not run.
SshBos ==
    /\ yeni_df = BosDf
    /\ mevcut_df = BosDf
    /\ son_df = Sonuc(BosDf)
    /\ ssh_sayfasi = BosDf

FastBos ==
    /\ orders = <<>>
    /\ bekleyen_sayfasi = <<>>

ID2 == "ID2"

LISTE == "LISTE"

UcDiyez == "###"

INDIRIM == "INDIRIM"

\* int(x) of the exact quotient num / den: truncation toward zero.
IntKes(num, den) ==
    LET a == IF num < 0 THEN 0 - num ELSE num
        b == IF den < 0 THEN 0 - den ELSE den
        q == a \div b
    IN  IF (num < 0) = (den < 0) THEN q ELSE 0 - q

\* Operand pairs (pay, payda), both up to 10, for which the double
\* (1 - (pay / payda)) * 100 falls just below the whole number it stands
\* for, so that int() yields one less in magnitude.
CiftDuyarlikAltinda ==
    {<<4, 5>>, <<6, 5>>, <<7, 5>>, <<8, 10>>, <<9, 10>>}

CiftDuyarlikSiniri == 10

\* int((1 - (pay / payda)) * 100) in double precision.
IntYuzde(pay, payda) ==
    LET k == IntKes(100 * (payda - pay), payda)
    IN  IF <<pay, payda>> \in CiftDuyarlikAltinda
        THEN (IF k > 0 THEN k - 1 ELSE k + 1)
        ELSE k

Deger(n) == [hata |-> FALSE, deger |-> n]

\* The lambda without its guard: pay / 0 raises ZeroDivisionError.
yuzde_korumasiz(pay, payda) ==
    IF payda = 0 THEN [hata |-> TRUE, deger |-> 0]
    ELSE Deger(IntYuzde(pay, payda))

\* lambda row: int((1 - (row[pay] / row[payda])) * 100) if row[payda] != 0 else 0
yuzde_hesapla(pay, payda) ==
    IF payda # 0 THEN Deger(IntYuzde(pay, payda)) ELSE Deger(0)

FiyatHucreleri ==
    [{ID2, PERAKENDE, LISTE} -> 0..MaxFiyat]

InitYuzde ==
    /\ pc = "giris"
    /\ okuma = "yok"
    /\ SshBos /\ FastBos /\ StokBos
    /\ MaxFiyat <= CiftDuyarlikSiniri
    /\ fiyatlar \in FiyatHucreleri
    /\ yuzdeler = <<>>
    /\ plan_sayfasi = BosDf
    /\ RunBos /\ KodBos /\ all_orders = <<>>
    /\ SonBos

\* merged_df['###'] = ..., merged_df['INDIRIM'] = ... on one row
YuzdeleriHesapla ==
    /\ pc = "giris"
    /\ yuzdeler' = (UcDiyez :> yuzde_hesapla(fiyatlar[ID2], fiyatlar[PERAKENDE]))
                   @@ (INDIRIM :> yuzde_hesapla(fiyatlar[PERAKENDE], fiyatlar[LISTE]))
    /\ pc' = "cikis"
    /\ UNCHANGED <<okuma, sshVars, fastVars, stokVars, fiyatlar, plan_sayfasi, runVars,
                   kodVars, all_orders, sonVars>>

NextYuzde == YuzdeleriHesapla

SpecYuzde == InitYuzde /\ [][NextYuzde]_vars

\* C11: where the divisor price is 0 the percentage is exactly 0 and
\* the computation raises nothing.
C11_GuardedRatioZero ==
    pc = "cikis" =>
        /\ (fiyatlar[PERAKENDE] = 0 => yuzdeler[UcDiyez] = Deger(0))
        /\ (fiyatlar[LISTE] = 0 => yuzdeler[INDIRIM] = Deger(0))

\* '###' computed with a zero divisor and a non-zero numerator, next to
\* an INDIRIM computed with a non-zero divisor.
C11_Witness ==
    /\ pc = "cikis"
    /\ fiyatlar[ID2] # 0 /\ fiyatlar[PERAKENDE] = 0
    /\ yuzdeler[UcDiyez].deger = 0
    /\ fiyatlar[LISTE] # 0
    /\ yuzdeler[INDIRIM].deger # 0

\* round(num / den), halves away from zero.
Yuvarla(num, den) ==
    LET a == IF num < 0 THEN 0 - num ELSE num
        b == IF den < 0 THEN 0 - den ELSE den
        q == (2 * a + b) \div (2 * b)
    IN  IF (num < 0) = (den < 0) THEN q ELSE 0 - q

\* C12: where the divisor is not 0 the percentage equals
\* round((1 - numerator / divisor) * 100).
C12_RoundedPercentage ==
    pc = "cikis" =>
        /\ (fiyatlar[PERAKENDE] # 0 =>
               yuzdeler[UcDiyez].deger
                   = Yuvarla(100 * (fiyatlar[PERAKENDE] - fiyatlar[ID2]), fiyatlar[PERAKENDE]))
        /\ (fiyatlar[LISTE] # 0 =>
               yuzdeler[INDIRIM].deger
                   = Yuvarla(100 * (fiyatlar[LISTE] - fiyatlar[PERAKENDE]), fiyatlar[LISTE]))


\* ---------------------------------------------------------------------
\* Stok.py: plan_verilerini_al, coercion and group-by sum
\* ---------------------------------------------------------------------

MaxPlanRows == 3

\* The value of a run of decimal digits; -1 when a character is not a
\* digit.
RECURSIVE DigitsValue(_, _)
DigitsValue(t, acc) ==
    IF t = <<>> THEN acc
    ELSE IF Digit(Head(t)) < 0 THEN -1
    ELSE DigitsValue(Tail(t), 10 * acc + Digit(Head(t)))

IndexOfDot(t) ==
    IF \E i \in DOMAIN t : t[i] = "."
    THEN CHOOSE i \in DOMAIN t : t[i] = "." /\ \A j \in 1..(i - 1) : t[j] # "."
    ELSE 0

\* pd.to_numeric(cell, errors='coerce') on a text cell without blanks:
\* digits with an optional fraction are a number, anything else is NaN.
\* The number is <<whole part, fraction digits>>.
to_numeric(cell) ==
    LET t == cell
        d == IndexOfDot(t)
        tam == IF d = 0 THEN t ELSE SubSeq(t, 1, d - 1)
        kesir == IF d = 0 THEN <<>> ELSE SubSeq(t, d + 1, Len(t))
    IN  IF tam \o kesir = <<>> \/ DigitsValue(tam, 0) < 0 \/ DigitsValue(kesir, 0) < 0
        THEN Eksik
        ELSE <<DigitsValue(tam, 0), kesir>>

\* .fillna(0).astype(int): NaN becomes 0, a number loses its fraction.
adet_int(v) == IF v = Eksik THEN 0 ELSE v[1]

PlanBos == StokTablo({MalzemeKodu, Adet}, <<>>)

plan_verilerini_al(sayfa, okundu) ==
    IF ~okundu THEN PlanBos
    ELSE IF sayfa.cols = {} THEN PlanBos
    ELSE IF ~({MalzemeKodu, Adet} \subseteq sayfa.cols) THEN PlanBos
    ELSE LET plan_df ==
                 [cols |-> sayfa.cols,
                  rows |-> [i \in 1..Len(sayfa.rows) |->
                              [c \in sayfa.cols |->
                                  IF c = Adet
                                  THEN Sayi(adet_int(to_numeric(sayfa.rows[i][c])))
                                  ELSE sayfa.rows[i][c]]]]
         IN  groupby_sum(plan_df, MalzemeKodu, Adet)

AdetHucreleri == {<<"2">>, <<"1", ".", "5">>, <<"x">>, <<>>}

PlanSatirlari ==
    {(MalzemeKodu :> k) @@ (Adet :> a) : k \in {KodA, KodC}, a \in AdetHucreleri}

PlanSayfalari ==
    {BosDf}
    \cup {StokTablo({MalzemeKodu, Adet}, rows) : rows \in SeqsUpTo(PlanSatirlari, MaxPlanRows)}
    \cup {StokTablo({MalzemeKodu}, <<(MalzemeKodu :> KodA)>>)}

InitPlan ==
    /\ pc = "giris"
    /\ okuma = "yok"
    /\ SshBos /\ FastBos /\ StokBos /\ YuzdeBos /\ RunBos /\ KodBos /\ all_orders = <<>>
    /\ SonBos
    /\ plan_sayfasi \in PlanSayfalari

PlanVerileriniAl ==
    /\ pc = "giris"
    /\ \E okundu \in BOOLEAN :
           /\ plan' = plan_verilerini_al(plan_sayfasi, okundu)
           /\ okuma' = IF okundu THEN "okundu" ELSE "hata"
    /\ pc' = "cikis"
    /\ UNCHANGED <<sshVars, fastVars, yuzdeVars, plan_sayfasi, runVars, kodVars, all_orders, sonVars,
                   malzeme, bekleyen, malzeme_toplam_borc, liste, stok_df>>

NextPlan == PlanVerileriniAl

SpecPlan == InitPlan /\ [][NextPlan]_vars

\* What each cell of the sheets above is worth in the sum.
BeklenenAdet(cell) ==
    CASE cell = <<"2">> -> 2
      [] cell = <<"1", ".", "5">> -> 1
      [] OTHER -> 0

RECURSIVE BeklenenToplam(_, _)
BeklenenToplam(I, k) ==
    IF I = {} THEN 0
    ELSE LET i == CHOOSE j \in I : TRUE
         IN  (IF plan_sayfasi.rows[i][MalzemeKodu] = k
              THEN BeklenenAdet(plan_sayfasi.rows[i][Adet]) ELSE 0)
             + BeklenenToplam(I \ {i}, k)

PlanOkundu ==
    pc = "cikis" /\ okuma = "okundu" /\ {MalzemeKodu, Adet} \subseteq plan_sayfasi.cols

MaxHam == 2

Malzeme == "Malzeme"

malzemeKodu == "malzemeKodu"

SiparisMiktari == "Siparis Miktari"

\* int(text) succeeds on a non-empty run of digits.
TamSayiMetni(t) == t # <<>> /\ \A i \in DOMAIN t : Digit(t[i]) >= 0

\* str(int(text)): the digits without their leading zeros.
RECURSIVE SifirsizMetin(_)
SifirsizMetin(t) ==
    IF Len(t) > 1 /\ Head(t) = "0" THEN SifirsizMetin(Tail(t)) ELSE t

\* str.replace(',', '', regex=False)
VirgulSil(t) == SelectSeq(t, LAMBDA c : c # ",")

BinSayisi == 1000

\* (pd.to_numeric(cell without commas, errors='coerce').fillna(0) / 1000).astype(int)
bekleyen_adet(cell) == adet_int(to_numeric(VirgulSil(cell))) \div BinSayisi

\* bekleyen_siparisleri_isle_dataframe, from the rows of the 'Bekleyen'
\* sheet already joined with the barcode table (malzemeKodu is NaN where
\* no barcode matched) to the columns the reconciliation uses.  Any
\* exception inside is caught and an empty DataFrame returned.
bekleyen_siparisleri_isle_dataframe(ham, okundu) ==
    IF ~okundu THEN BosDf
    ELSE IF ham.cols = {} THEN BosDf
    ELSE IF \E i \in DOMAIN ham.rows : ~TamSayiMetni(ham.rows[i][Malzeme]) THEN BosDf
    ELSE [cols |-> {MalzemeKodu, BekleyenAdet},
          rows |-> [i \in 1..Len(ham.rows) |->
                      (MalzemeKodu :>
                          (IF ham.rows[i][malzemeKodu] = NaN
                           THEN SifirsizMetin(ham.rows[i][Malzeme]) \o <<"-", "0">>
                           ELSE ham.rows[i][malzemeKodu]))
                      @@ (BekleyenAdet :> Sayi(bekleyen_adet(ham.rows[i][SiparisMiktari])))]]

ListeBos == StokTablo({SAPKodu, PERAKENDE}, <<>>)

\* GoogleSheetsYoneticisi.sayfa_guncelle, by how far it gets; every
\* exception is caught and False returned:
\*   "acilamadi"      the spreadsheet cannot be opened: sheet untouched
\*   "guncellenemedi" clear() succeeded and update() raised: sheet cleared
\*   "tamam"          clear() and update() both succeeded
sayfa_guncelle(sayfa, data, yazma) ==
    CASE yazma = "acilamadi" -> sayfa
      [] yazma = "guncellenemedi" -> BosDf
      [] OTHER -> data

Ikincil == {"borc", "bekleyen", "plan", "fiyat"}

\* The tables main hands to stok_verilerini_duzenle_ve_kaydet.  A missing
\* SQL setting makes connection_string raise; baglanti_bilgilerini_al
\* catches it and returns None, and every database fetch then returns
\* pd.DataFrame(); with an empty barcode table the pending sheet is not
\* processed.
malzeme_df(hatalar) == IF "ayar" \in hatalar THEN BosDf ELSE malzeme

toplam_borc_df(hatalar) ==
    IF "ayar" \in hatalar \/ "borc" \in hatalar THEN BosDf ELSE malzeme_toplam_borc

bekleyen_df(hatalar) ==
    IF "ayar" \in hatalar THEN BosDf
    ELSE bekleyen_siparisleri_isle_dataframe(bekleyen_ham, "bekleyen" \notin hatalar)

plan_df(hatalar) == plan_verilerini_al(plan_sayfasi, "plan" \notin hatalar)

liste_df(hatalar) == IF "fiyat" \in hatalar THEN ListeBos ELSE liste

final_stok_df(hatalar) ==
    stok_verilerini_duzenle_ve_kaydet(malzeme_df(hatalar), bekleyen_df(hatalar),
        toplam_borc_df(hatalar), plan_df(hatalar), liste_df(hatalar)).df

RunMalzeme ==
    {StokTablo({MalzemeKodu, DEPO}, <<(MalzemeKodu :> KodA) @@ (DEPO :> Sayi(2))>>),
     StokTablo({MalzemeKodu, DEPO}, <<(MalzemeKodu :> KodA) @@ (DEPO :> Sayi(2)),
                                      (MalzemeKodu :> KodC) @@ (DEPO :> Eksik)>>)}

HamSatirlari ==
    {(Malzeme :> m) @@ (malzemeKodu :> k) @@ (SiparisMiktari :> q) :
        m \in {KodA, <<"0">> \o KodC, <<"x">>},
        k \in {NaN, KodA},
        q \in {<<"2", ",", "0", "0", "0">>, <<"x">>}}

HamSayfalar ==
    {BosDf} \cup
    {StokTablo({Malzeme, malzemeKodu, SiparisMiktari}, rows) :
        rows \in SeqsUpTo(HamSatirlari, MaxHam) \ {<<>>}}

RunPlanSayfalari ==
    {BosDf,
     StokTablo({MalzemeKodu, Adet}, <<(MalzemeKodu :> KodA) @@ (Adet :> <<"2">>)>>),
     StokTablo({MalzemeKodu, Adet}, <<(MalzemeKodu :> KodC) @@ (Adet :> <<"x">>)>>)}

RunListe ==
    {ListeBos, StokTablo({SAPKodu, PERAKENDE}, <<(SAPKodu :> KodA) @@ (PERAKENDE :> Sayi(5))>>)}

\* What an earlier run published.
EskiStok ==
    [cols |-> SonCols,
     rows |-> <<(MalzemeKodu :> KodA) @@ (SAPKodu :> KodA) @@ (DEPO :> 1)
                @@ (Bekleyen :> 0) @@ (Borc :> 0) @@ (Plan :> 0) @@ (PERAKENDE :> 0)
                @@ (Fazla :> 1) @@ (Ver :> 0)>>]

InitRun ==
    /\ pc = "giris"
    /\ okuma = "yok"
    /\ SshBos /\ FastBos /\ YuzdeBos /\ KodBos /\ all_orders = <<>>
    /\ SonBos
    /\ malzeme \in RunMalzeme
    /\ bekleyen = BosDf
    /\ malzeme_toplam_borc \in BorcTablolari \ {BosDf}
    /\ plan = BosDf
    /\ liste \in RunListe
    /\ stok_df = Sonuc(BosDf)
    /\ plan_sayfasi \in RunPlanSayfalari
    /\ bekleyen_ham \in HamSayfalar
    /\ stok_sayfasi = EskiStok
    /\ olaylar = {}
    /\ basari = "yok"

\* main: the fetches, the reconciliation and the publication.  main
\* returns True whether or not anything was published.
Main ==
    /\ pc = "giris"
    /\ \E hatalar \in SUBSET ({"ayar"} \cup Ikincil), yazma \in YazmaSonuclari :
           LET final == final_stok_df(hatalar)
           IN  /\ stok_sayfasi' = IF Empty(final) THEN stok_sayfasi
                                  ELSE sayfa_guncelle(stok_sayfasi, final, yazma)
               /\ olaylar' = hatalar \cup (IF Empty(final) \/ yazma = "tamam" THEN {} ELSE {yazma})
               /\ bekleyen' = bekleyen_df(hatalar)
               /\ plan' = plan_df(hatalar)
    /\ basari' = "True"
    /\ pc' = "cikis"
    /\ UNCHANGED <<okuma, sshVars, fastVars, yuzdeVars, plan_sayfasi, bekleyen_ham,
                   kodVars, all_orders, sonVars, malzeme, malzeme_toplam_borc, liste, stok_df>>

\* main: StokConfig() raises while loading the central configuration;
\* the exception reaches main's except clause, which returns False.
MainConfigYuklenemedi ==
    /\ pc = "giris"
    /\ olaylar' = {"config"}
    /\ basari' = "False"
    /\ pc' = "cikis"
    /\ UNCHANGED <<okuma, sshVars, fastVars, stokVars, yuzdeVars, plan_sayfasi,
                   kodVars, all_orders, sonVars, bekleyen_ham, stok_sayfasi>>

NextRun == Main \/ MainConfigYuklenemedi

SpecRun == InitRun /\ [][NextRun]_vars

HamTemiz ==
    /\ bekleyen_ham.cols # {}
    /\ \A i \in DOMAIN bekleyen_ham.rows : TamSayiMetni(bekleyen_ham.rows[i][Malzeme])

\* The reconciliation of the sources that succeeded: the failed source
\* replaced by an empty table with its columns.
Beklenen(x) ==
    stok_verilerini_duzenle_ve_kaydet(
        malzeme,
        IF x = "bekleyen"
        THEN StokTablo({MalzemeKodu, BekleyenAdet}, <<>>)
        ELSE bekleyen_siparisleri_isle_dataframe(bekleyen_ham, TRUE),
        IF x = "borc" THEN StokTablo({MalzemeKodu, ToplamBorc}, <<>>) ELSE malzeme_toplam_borc,
        plan_verilerini_al(plan_sayfasi, x # "plan"),
        IF x = "fiyat" THEN ListeBos ELSE liste).df

\* C14: a run in which exactly one secondary source failed, and nothing
\* else went wrong, publishes the reconciliation of the other sources.
C14_DegradedSourcePublishes ==
    \A x \in Ikincil :
        (pc = "cikis" /\ olaylar = {x} /\ HamTemiz) => stok_sayfasi = Beklenen(x)

\* C15: a run with a missing SQL setting fails, and leaves the sheet as
\* it was.
C15_ConfigErrorFatal ==
    [][(pc = "giris" /\ pc' = "cikis" /\ "ayar" \in olaylar')
          => (basari' = "False" /\ stok_sayfasi' = stok_sayfasi)]_vars

\* C16: a run in which nothing failed publishes a row for every master
\* material, whatever the cells of the rows of the pending sheet hold.
C16_BadRowNeverAborts ==
    (pc = "cikis" /\ olaylar = {} /\ bekleyen_ham.cols # {})
        => KodSet(stok_sayfasi, MalzemeKodu) = KodSet(malzeme, MalzemeKodu)


\* ---------------------------------------------------------------------
\* BekleyenFast.py / BekleyenAPI.py: _process_data, the 'Malzeme' column
\* ---------------------------------------------------------------------

MaxKodLen == 3

MaxKodRows == 2

\* str.lstrip('0')
RECURSIVE lstrip_0(_)
lstrip_0(t) ==
    IF t # <<>> /\ Head(t) = "0" THEN lstrip_0(Tail(t)) ELSE t

\* str.zfill(width): zeros are put in front (behind a sign) until the
\* text is width characters long.
RECURSIVE zfill(_, _)
zfill(t, width) ==
    IF Len(t) >= width THEN t
    ELSE IF t # <<>> /\ Head(t) \in {"+", "-"}
         THEN <<Head(t)>> \o zfill(<<"0">> \o Tail(t), width - 1)
         ELSE zfill(<<"0">> \o t, width)

\* The normalization without zfill.
MalzemeNormalize_dolgusuz(t) == lstrip_0(t)

\* df['Malzeme'].astype(str).str.lstrip('0').str.zfill(1)
MalzemeNormalize(t) == zfill(lstrip_0(t), 1)

OrnekKod == <<"0", "0", "0", "7", "0", "0", "1", "3", "1", "8">>

ProductIds == SeqsUpTo({"0", "7"}, MaxKodLen) \cup {OrnekKod}

InitKod ==
    /\ pc = "giris"
    /\ okuma = "yok"
    /\ SshBos /\ FastBos /\ StokBos /\ YuzdeBos /\ RunBos
    /\ plan_sayfasi = BosDf
    /\ all_orders = <<>>
    /\ SonBos
    /\ productId \in SeqsUpTo(ProductIds, MaxKodRows)
    /\ Malzeme_sutunu = <<>>

MalzemeSutunu ==
    /\ pc = "giris"
    /\ Malzeme_sutunu' = [i \in 1..Len(productId) |-> MalzemeNormalize(productId[i])]
    /\ pc' = "cikis"
    /\ UNCHANGED <<okuma, sshVars, fastVars, stokVars, yuzdeVars, plan_sayfasi,
                   runVars, all_orders, sonVars, productId>>

NextKod == MalzemeSutunu

SpecKod == InitKod /\ [][NextKod]_vars

TumuSifir(t) == \A i \in DOMAIN t : t[i] = "0"

\* C17: the normalized code is the code without its leading zeros, at
\* least one character long; a code of zeros only (or an empty one)
\* becomes "0", and "0007001318" becomes "7001318".
C17_ZeroNormalization ==
    pc = "cikis" =>
        \A i \in DOMAIN productId :
            LET t == productId[i]
                n == Malzeme_sutunu[i]
            IN  /\ Len(n) >= 1
                /\ (TumuSifir(t) => n = <<"0">>)
                /\ (~TumuSifir(t) =>
                       /\ n[1] # "0"
                       /\ \E k \in 0..Len(t) :
                              /\ TumuSifir(SubSeq(t, 1, k))
                              /\ n = SubSeq(t, k + 1, Len(t)))
                /\ (t = OrnekKod => n = <<"7", "0", "0", "1", "3", "1", "8">>)

\* A column holding a code of zeros only next to "0007001318".
C17_Witness ==
    /\ pc = "cikis"
    /\ Len(productId) = 2
    /\ productId[1] = <<"0", "0", "0">> /\ Malzeme_sutunu[1] = <<"0">>
    /\ productId[2] = OrnekKod /\ Len(Malzeme_sutunu[2]) = 7

\* ---------------------------------------------------------------------
\* BekleyenFast.py / BekleyenAPI.py: get_orders on what the API returned
\* ---------------------------------------------------------------------

MaxFetch == 3

InitGetOrders ==
    /\ pc = "giris"
    /\ okuma = "yok"
    /\ SshBos /\ FastBos /\ StokBos /\ YuzdeBos /\ RunBos /\ KodBos
    /\ plan_sayfasi = BosDf
    /\ SonBos
    /\ all_orders \in SeqsUpTo(OrderPool, MaxFetch)

GetOrdersCagrisi ==
    /\ pc = "giris"
    /\ orders' = get_orders(all_orders)
    /\ pc' = "siparis"
    /\ UNCHANGED <<okuma, sshVars, bekleyen_sayfasi, stokVars, yuzdeVars, plan_sayfasi,
                   runVars, kodVars, all_orders, sonVars>>

NextGetOrders == GetOrdersCagrisi

SpecGetOrders == InitGetOrders /\ [][NextGetOrders]_vars

Cift(order) == <<order.orderId, order.orderLineId>>

\* The places of all_orders that hold a pair for the first time.
IlkGorulenler ==
    {i \in DOMAIN all_orders : \A j \in 1..(i - 1) : Cift(all_orders[j]) # Cift(all_orders[i])}

\* C18: the result of get_orders is all_orders restricted to the first
\* record of each (orderId, orderLineId) pair, in the order fetched.
C18_FirstSeenWins ==
    pc = "siparis" =>
        /\ Len(orders) = Cardinality(IlkGorulenler)
        /\ \A i \in IlkGorulenler :
               orders[Cardinality({j \in IlkGorulenler : j <= i})] = all_orders[i]
        /\ \A m, n \in DOMAIN orders : m # n => Cift(orders[m]) # Cift(orders[n])

\* A fetch of three records in which the third repeats the pair of the
\* first with another date, and the first two are kept in order.
C18_Witness ==
    /\ pc = "siparis"
    /\ Len(all_orders) = 3
    /\ Cift(all_orders[1]) = Cift(all_orders[3])
    /\ all_orders[1] # all_orders[3]
    /\ Cift(all_orders[1]) # Cift(all_orders[2])
    /\ orders = <<all_orders[1], all_orders[2]>>

-----------------------------------------------------------------------------
(* Siparisler.py / Siparis.py: the retry loops of the worksheet update and   *)
(* of the database connection                                                *)

\* self.max_retries and self.retry_delay of DatabaseManager and
\* GoogleSheetsManager, the same in both scripts.
max_retries == 3

retry_delay == 2

\* The calls that carry a retry loop.
SayfaIslemleri == {"update_siparisler_worksheet", "update_siparis_worksheet"}

Islemler == SayfaIslemleri \cup {"get_connection"}

\* What an attempt can raise: any Exception for the worksheet update, a
\* pyodbc.Error for pyodbc.connect.
DenemeHatalari(islem) ==
    IF islem \in SayfaIslemleri
        THEN {"APIError", "ConnectionError"}
        ELSE {"OperationalError", "InterfaceError"}

\* How the body of "with get_connection() as connection" can end: normally,
\* with a pyodbc.Error of the query, or with another exception.
GovdeSonuclari == {"ok", "OperationalError", "ValueError"}

\* The retries never count as used up.
son_deneme_yok(count) == FALSE

\* if retry_count >= self.max_retries: ... raise
son_deneme(count) == count >= max_retries

\* The except branch of the loop, entered with the caught error e.
except_dali(e) ==
    /\ retry_count' = retry_count + 1
    /\ cagri' = IF son_deneme(retry_count + 1)
                    THEN [cagri EXCEPT !.durum = "raise", !.hata = e]
                    ELSE [cagri EXCEPT !.durum = "uyku"]

InitRetry ==
    /\ pc = "giris"
    /\ okuma = "yok"
    /\ SshBos /\ FastBos /\ StokBos /\ YuzdeBos /\ RunBos /\ KodBos
    /\ plan_sayfasi = BosDf
    /\ all_orders = <<>>
    /\ ilk_df = <<>>
    /\ BaglantiOtesiBos
    /\ baglantilar = <<>>
    /\ govde_hatasi = [hata |-> "yok", deneme |-> 0]
    /\ cagri \in {[islem |-> i, durum |-> "dongu", hata |-> "yok", atildi |-> FALSE] :
                    i \in Islemler}
    /\ retry_count = 0
    /\ denemeler = <<>>
    /\ beklemeler = <<>>

\* "finally: if connection: connection.close()": the name connection is bound
\* to the connection made last, which is closed; an earlier one is not.
finally_kapat(b) ==
    IF b = <<>> THEN b ELSE [b EXCEPT ![Len(b)] = b[Len(b)] + 1]

\* One pass of "while retry_count < self.max_retries": the attempt (the
\* worksheet is opened, cleared and updated, or pyodbc.connect is called) and
\* what follows from how it ended. A worksheet update that went through
\* leaves the loop by break; a connection that was made is yielded to the
\* with statement; when it is yielded a second time, after an error thrown in
\* at the first yield was caught, contextlib raises RuntimeError, and the
\* suspended generator is closed (its finally clause runs) or left suspended,
\* depending on the Python version.
Dene ==
    /\ cagri.durum = "dongu"
    /\ IF retry_count < max_retries
        THEN \E sonuc \in {"ok"} \cup DenemeHatalari(cagri.islem) :
                /\ denemeler' = Append(denemeler, sonuc)
                /\ IF sonuc = "ok"
                    THEN /\ retry_count' = retry_count
                         /\ cagri' =
                                IF cagri.islem \in SayfaIslemleri
                                    THEN [cagri EXCEPT !.durum = "bitti"]
                                    ELSE IF cagri.atildi
                                        THEN [cagri EXCEPT !.durum = "raise",
                                                           !.hata = "RuntimeError"]
                                        ELSE [cagri EXCEPT !.durum = "yield"]
                         /\ IF cagri.islem \in SayfaIslemleri
                                THEN baglantilar' = baglantilar
                                ELSE IF cagri.atildi
                                    THEN \E kapandi \in {0, 1} :
                                            baglantilar' = Append(baglantilar, kapandi)
                                    ELSE baglantilar' = Append(baglantilar, 0)
                    ELSE /\ except_dali(sonuc)
                         /\ baglantilar' = IF cagri'.durum = "raise"
                                                THEN finally_kapat(baglantilar)
                                                ELSE baglantilar
        ELSE /\ cagri' = [cagri EXCEPT !.durum = "bitti"]
             /\ baglantilar' = finally_kapat(baglantilar)
             /\ UNCHANGED <<retry_count, denemeler>>
    /\ UNCHANGED <<pc, okuma, sshVars, fastVars, stokVars, yuzdeVars, plan_sayfasi,
                   runVars, kodVars, all_orders, ilk_df, baglantiOtesi, govde_hatasi,
                   beklemeler>>

\* time.sleep(self.retry_delay), then back to the head of the loop.
Uyku ==
    /\ cagri.durum = "uyku"
    /\ beklemeler' = Append(beklemeler, retry_delay)
    /\ cagri' = [cagri EXCEPT !.durum = "dongu"]
    /\ UNCHANGED <<pc, okuma, sshVars, fastVars, stokVars, yuzdeVars, plan_sayfasi,
                   runVars, kodVars, all_orders, ilk_df, yeniVars, retry_count, denemeler>>

\* The body of the with statement ends. A normal end resumes the generator
\* after the yield, which breaks out of the loop. An exception is thrown into
\* the generator at the yield: a pyodbc.Error is caught by the loop's except
\* branch like a failed connection, any other exception passes through the
\* finally clause to the caller. The finally clause runs whenever the
\* generator ends here, and not when it goes to sleep for another attempt.
WithGovdesi ==
    /\ cagri.islem = "get_connection"
    /\ cagri.durum = "yield"
    /\ \E g \in GovdeSonuclari :
        /\ IF g = "ok"
            THEN /\ cagri' = [cagri EXCEPT !.durum = "bitti"]
                 /\ retry_count' = retry_count
            ELSE IF g \in DenemeHatalari("get_connection")
                THEN /\ retry_count' = retry_count + 1
                     /\ cagri' = IF son_deneme(retry_count + 1)
                                    THEN [cagri EXCEPT !.durum = "raise", !.hata = g,
                                                       !.atildi = TRUE]
                                    ELSE [cagri EXCEPT !.durum = "uyku", !.atildi = TRUE]
                ELSE /\ cagri' = [cagri EXCEPT !.durum = "raise", !.hata = g]
                     /\ retry_count' = retry_count
        /\ govde_hatasi' = IF g = "ok"
                            THEN govde_hatasi
                            ELSE [hata |-> g, deneme |-> Len(denemeler)]
    /\ baglantilar' = IF cagri'.durum = "uyku"
                        THEN baglantilar
                        ELSE finally_kapat(baglantilar)
    /\ UNCHANGED <<pc, okuma, sshVars, fastVars, stokVars, yuzdeVars, plan_sayfasi,
                   runVars, kodVars, all_orders, ilk_df, baglantiOtesi, denemeler,
                   beklemeler>>

NextRetry == Dene \/ Uyku \/ WithGovdesi

SpecRetry == InitRetry /\ [][NextRetry]_vars

\* Every attempt returns or raises, time.sleep returns, and the body of the
\* with statement ends: a step that can be taken is taken.
SpecRetryAdil == SpecRetry /\ WF_vars(NextRetry)

\* The call has returned or has raised to its caller.
CagriBitti == cagri.durum \in {"bitti", "raise"}

\* At most max_retries attempts, retry_delay between them, and once
\* max_retries attempts have failed the error of the last one is raised.
RetrySinirli ==
    /\ Len(denemeler) <= max_retries
    /\ Len(beklemeler) < max_retries
    /\ \A i \in DOMAIN beklemeler : beklemeler[i] = retry_delay
    /\ retry_count = max_retries =>
        /\ cagri.durum = "raise"
        /\ cagri.hata \in DenemeHatalari(cagri.islem)
        /\ ~cagri.atildi => cagri.hata = denemeler[Len(denemeler)]

\* C19: a worksheet update or a database connection is attempted at most 3
\* times with a fixed delay between the attempts, the retry loop always
\* terminates, and after the last failed attempt the error is raised to the
\* caller.
C19_BoundedRetries == [](RetrySinirli) /\ <>(CagriBitti)

\* Three worksheet updates failed, two delays lay between them, and the third
\* error went to the caller.
C19_Witness ==
    /\ cagri.islem \in SayfaIslemleri
    /\ cagri.durum = "raise"
    /\ Len(denemeler) = max_retries
    /\ Len(beklemeler) = max_retries - 1
    /\ cagri.hata = denemeler[max_retries]

-----------------------------------------------------------------------------
(* BekleyenAPI.py: the full run of the module                               *)

MaxApiOrders == 2

\* What the 'orderStatus' field of a fetched record can hold: nothing, or a
\* status text.
orderStatuslari == {<<>>, <<"A">>, <<"B">>}

\* Raw order lines of BekleyenAPI, with their status.
ApiOrderPool ==
    {[orderId |-> <<"1", "0">>, orderLineId |-> l, orderDate1 |-> d, orderStatus |-> st] :
        l \in OrderLineIds, d \in OrderDates, st \in orderStatuslari}

\* _process_data of BekleyenAPI on the columns kept here: rename,
\* BagKoduBekleyen, date parse, sort by date, date format.
api_process_data(ords) ==
    LET parsed == [i \in 1..Len(ords) |->
                      [order |-> ords[i], tarih |-> to_datetime(ords[i].orderDate1)]]
        sorted == SortTarih(parsed)
    IN  [i \in 1..Len(sorted) |->
            [SatisBelgesi     |-> sorted[i].order.orderId,
             Kalem            |-> sorted[i].order.orderLineId,
             SiparisTarihi    |-> strftime(sorted[i].tarih),
             SiparisDurumTanim |-> sorted[i].order.orderStatus,
             BagKoduBekleyen  |-> BagKodu(sorted[i].order)]]

\* _load_existing_data: the data rows of the 'Bekleyen' worksheet, an empty
\* table when the worksheet cannot be read.
load_existing_data(sayfa, okundu) == IF okundu THEN sayfa ELSE <<>>

\* existing_status_map of _merge_with_existing_data: the status of each
\* BagKoduBekleyen of ilk_df that has one, a later row replacing an earlier.
RECURSIVE existing_status_map(_)
existing_status_map(rows) ==
    IF rows = <<>> THEN << >>
    ELSE LET once == existing_status_map(SubSeq(rows, 1, Len(rows) - 1))
             row == rows[Len(rows)]
         IN  IF row.BagKoduBekleyen # <<>> /\ row.SiparisDurumTanim # <<>>
                   /\ row.SiparisDurumTanim # NaN
                 THEN [k \in DOMAIN once \cup {row.BagKoduBekleyen} |->
                          IF k = row.BagKoduBekleyen THEN row.SiparisDurumTanim
                          ELSE once[k]]
                 ELSE once

\* _merge_with_existing_data: a record with an empty orderStatus takes the
\* status ilk_df holds for its BagKoduBekleyen.
merge_with_existing_data(new_orders, ilk) ==
    LET durumlar == existing_status_map(ilk)
    IN  [i \in 1..Len(new_orders) |->
            IF new_orders[i].orderStatus = <<>>
                   /\ BagKodu(new_orders[i]) \in DOMAIN durumlar
                THEN [new_orders[i] EXCEPT !.orderStatus = durumlar[BagKodu(new_orders[i])]]
                ELSE new_orders[i]]

\* How the write of save_to_sheets can end: the worksheet is cleared and
\* updated, the spreadsheet cannot be opened, or the worksheet is cleared and
\* the update raises. The exception is logged and swallowed.
ApiYazmaSonuclari == {"ok", "acilamadi", "guncellenemedi"}

\* save_to_sheets of BekleyenAPI: _process_data, worksheet.clear(),
\* worksheet.update(values, 'A1').
api_save_to_sheets(sayfa, ords, yazma) ==
    IF ords = <<>> THEN sayfa
    ELSE LET processed_orders == api_process_data(ords)
         IN  IF yazma = "ok" THEN processed_orders
             ELSE IF yazma = "acilamadi" THEN sayfa
             ELSE <<>>

\* The 'Bekleyen' worksheets an earlier run of the module can have left.
OncekiSayfalar ==
    {api_process_data(get_orders(fetched)) : fetched \in SeqsUpTo(ApiOrderPool, MaxApiOrders)}

InitApi ==
    /\ pc = "giris"
    /\ okuma = "yok"
    /\ SshBos /\ StokBos /\ YuzdeBos /\ RunBos /\ KodBos /\ RetryBos
    /\ plan_sayfasi = BosDf
    /\ all_orders = <<>>
    /\ orders = <<>>
    /\ ilk_df = <<>>
    /\ YeniBos
    /\ bekleyen_sayfasi \in OncekiSayfalar

\* sorgu = DogtasSiparisSorgu(): __init__ loads the worksheet into ilk_df.
DogtasSiparisSorgu ==
    /\ pc = "giris"
    /\ \E okundu \in BOOLEAN :
        /\ ilk_df' = load_existing_data(bekleyen_sayfasi, okundu)
        /\ okuma' = IF okundu THEN "okundu" ELSE "hata"
    /\ pc' = "yuklendi"
    /\ UNCHANGED <<sshVars, fastVars, stokVars, yuzdeVars, plan_sayfasi, runVars, kodVars,
                   all_orders, retryVars, yeniVars>>

\* orders = sorgu.get_orders()
ApiGetOrders ==
    /\ pc = "yuklendi"
    /\ \E fetched \in SeqsUpTo(ApiOrderPool, MaxApiOrders) :
        /\ all_orders' = fetched
        /\ orders' = get_orders(fetched)
    /\ pc' = "siparis"
    /\ UNCHANGED <<okuma, sshVars, bekleyen_sayfasi, stokVars, yuzdeVars, plan_sayfasi,
                   runVars, kodVars, sonVars>>

\* if orders: sorgu.save_to_sheets(orders)
ApiSaveToSheets ==
    /\ pc = "siparis"
    /\ \E yazma \in ApiYazmaSonuclari :
        bekleyen_sayfasi' = api_save_to_sheets(bekleyen_sayfasi, orders, yazma)
    /\ pc' = "bitti"
    /\ UNCHANGED <<okuma, sshVars, orders, stokVars, ekVars>>

NextApi == DogtasSiparisSorgu \/ ApiGetOrders \/ ApiSaveToSheets

SpecApi == InitApi /\ [][NextApi]_vars

\* The status the loaded worksheet holds for a BagKoduBekleyen.
OncekiDurum(kod) == existing_status_map(ilk_df)[kod]

\* C20: in a full run a fetched record with an empty orderStatus whose
\* BagKoduBekleyen the previously persisted sheet holds with a non-empty
\* status is published with that previous status.
C20_MergedWithExisting ==
    [][ApiSaveToSheets =>
        \A i \in DOMAIN orders :
            (/\ orders[i].orderStatus = <<>>
             /\ BagKodu(orders[i]) \in DOMAIN existing_status_map(ilk_df))
            => \A j \in DOMAIN bekleyen_sayfasi' :
                bekleyen_sayfasi'[j].BagKoduBekleyen = BagKodu(orders[i])
                => bekleyen_sayfasi'[j].SiparisDurumTanim = OncekiDurum(BagKodu(orders[i]))]_vars

\* Everything but the script under study is idle.
EskiBos ==
    /\ okuma = "yok"
    /\ SshBos /\ FastBos /\ StokBos /\ YuzdeBos /\ RunBos /\ KodBos /\ RetryBos
    /\ plan_sayfasi = BosDf
    /\ all_orders = <<>>
    /\ ilk_df = <<>>

AyarDisiBos == EskiBos /\ MontajBos /\ OkcBos /\ IrsaliyeBos /\ BaglantiBos /\ SapBos

MontajDisiBos == EskiBos /\ AyarBos /\ OkcBos /\ IrsaliyeBos /\ BaglantiBos /\ SapBos

OkcDisiBos == EskiBos /\ AyarBos /\ MontajBos /\ IrsaliyeBos /\ BaglantiBos /\ SapBos

IrsaliyeDisiBos == EskiBos /\ AyarBos /\ MontajBos /\ OkcBos /\ BaglantiBos /\ SapBos

BaglantiDisiBos == EskiBos /\ AyarBos /\ MontajBos /\ OkcBos /\ IrsaliyeBos /\ SapBos

SapDisiBos == EskiBos /\ AyarBos /\ MontajBos /\ OkcBos /\ IrsaliyeBos /\ BaglantiBos

\* ----- end of the idle predicates

-----------------------------------------------------------------------------
(* central_config.py: CentralConfigManager.get_settings and refresh_config   *)

MaxAyarRows == 2

\* Rows of the Ayar worksheet as get_all_records returns them: 'App Name',
\* 'Key' and 'Value' cells.
AyarSatirlari ==
    {[AppName |-> a, Key |-> <<"K">>, Value |-> v] :
        a \in {<<"G", "l", "o", "b", "a", "l">>, <<"E">>},
        v \in {<<"1">>, <<"2", " ">>}}
    \cup {[AppName |-> <<>>, Key |-> <<" ">>, Value |-> <<"1">>]}

AyarSayfalari == SeqsUpTo(AyarSatirlari, MaxAyarRows)

\* The key a row is stored under: the bare key for a Global row or a row
\* without app name, 'AppName_Key' otherwise.
ayar_anahtari(row) ==
    IF Strip(row.AppName) = <<"G", "l", "o", "b", "a", "l">> \/ Strip(row.AppName) = <<>>
        THEN Strip(row.Key)
        ELSE Strip(row.AppName) \o <<"_">> \o Strip(row.Key)

\* The loop of get_settings over the rows: rows without key are skipped, a
\* later row replaces an earlier one with the same key.
RECURSIVE settings_dict(_)
settings_dict(rows) ==
    IF rows = <<>> THEN << >>
    ELSE LET once == settings_dict(SubSeq(rows, 1, Len(rows) - 1))
             row == rows[Len(rows)]
         IN  IF Strip(row.Key) = <<>> THEN once
             ELSE [k \in DOMAIN once \cup {ayar_anahtari(row)} |->
                      IF k = ayar_anahtari(row) THEN Strip(row.Value) ELSE once[k]]

\* A dict that is falsy in Python: the empty one.
BosSozluk(d) == DOMAIN d = {}

\* The file of SettingsCache: absent, or holding a dict.
DosyaYok == [var |-> FALSE, veri |-> << >>]

\* SettingsCache.load: None when the file is absent or cannot be decrypted.
cache_load(dosya, cozuldu) ==
    IF dosya.var /\ cozuldu THEN dosya.veri ELSE << >>

\* SettingsCache.save: the file holds the dict unless writing fails.
cache_save(dosya, settings, yazildi) ==
    IF yazildi THEN [var |-> TRUE, veri |-> settings] ELSE dosya

\* get_settings: the memory cache first, whatever use_cache says; then the
\* local file when use_cache is True; then the worksheet, whose values go to
\* both caches. A worksheet that cannot be read gives {}.
get_settings(bellek, dosya, sayfa, use_cache, cozuldu, sayfa_acik, yazildi) ==
    IF ~BosSozluk(bellek)
        THEN [donen |-> bellek, bellek |-> bellek, dosya |-> dosya]
    ELSE IF use_cache /\ ~BosSozluk(cache_load(dosya, cozuldu))
        THEN [donen |-> cache_load(dosya, cozuldu),
              bellek |-> cache_load(dosya, cozuldu), dosya |-> dosya]
    ELSE IF sayfa_acik
        THEN [donen |-> settings_dict(sayfa), bellek |-> settings_dict(sayfa),
              dosya |-> cache_save(dosya, settings_dict(sayfa), yazildi)]
    ELSE [donen |-> << >>, bellek |-> bellek, dosya |-> dosya]

\* A manager right after construction, the local file absent.
InitAyar ==
    /\ pc = "giris"
    /\ AyarDisiBos
    /\ ayar_sayfasi \in AyarSayfalari
    /\ settings_cache = << >>
    /\ local_cache = DosyaYok
    /\ donen = << >>
    /\ son_cagri = [islem |-> "yok", use_cache |-> TRUE, sayfa_acik |-> TRUE]

\* manager.get_settings(use_cache)
GetSettings ==
    /\ \E use_cache \in BOOLEAN, cozuldu \in BOOLEAN, sayfa_acik \in BOOLEAN,
          yazildi \in BOOLEAN :
        LET sonuc == get_settings(settings_cache, local_cache, ayar_sayfasi,
                                  use_cache, cozuldu, sayfa_acik, yazildi)
        IN  /\ donen' = sonuc.donen
            /\ settings_cache' = sonuc.bellek
            /\ local_cache' = sonuc.dosya
            /\ son_cagri' = [islem |-> "get_settings", use_cache |-> use_cache,
                             sayfa_acik |-> sayfa_acik]
    /\ UNCHANGED <<pc, ayar_sayfasi, ayarDisi>>

\* manager.refresh_config(): both caches are emptied; a file that cannot be
\* removed stays.
RefreshConfig ==
    /\ \E silindi \in BOOLEAN :
        local_cache' = IF silindi THEN DosyaYok ELSE local_cache
    /\ settings_cache' = << >>
    /\ son_cagri' = [islem |-> "refresh_config", use_cache |-> TRUE, sayfa_acik |-> TRUE]
    /\ UNCHANGED <<pc, ayar_sayfasi, donen, ayarDisi>>

\* Somebody edits the Ayar worksheet.
AyarSayfasiDegisir ==
    /\ \E sayfa \in AyarSayfalari :
        /\ sayfa # ayar_sayfasi
        /\ ayar_sayfasi' = sayfa
    /\ son_cagri' = [islem |-> "sayfa_degisti", use_cache |-> TRUE, sayfa_acik |-> TRUE]
    /\ UNCHANGED <<pc, settings_cache, local_cache, donen, ayarDisi>>

NextAyar == GetSettings \/ RefreshConfig \/ AyarSayfasiDegisir

SpecAyar == InitAyar /\ [][NextAyar]_vars

\* C21: a get_settings(use_cache=False) call that can read the worksheet
\* returns the values the worksheet holds at that moment, whatever earlier
\* get_settings calls on the same manager returned.
C21_RefreshReturnsCurrent ==
    (/\ son_cagri.islem = "get_settings"
     /\ ~son_cagri.use_cache
     /\ son_cagri.sayfa_acik)
    => donen = settings_dict(ayar_sayfasi)

-----------------------------------------------------------------------------
(* Montaj.py: read_montaj_raporu, read_montaj_from_sheets,                   *)
(* merge_and_update_data, save_to_worksheet                                  *)

MaxMontajRows == 2

\* Cells of the Excel report: a number, or nothing.
RaporSatirlari ==
    {[ServisBakimID |-> s, SozlesmeNumarasi |-> n] :
        s \in {Sayi(1), Sayi(2), Sayi(3)}, n \in {Sayi(7), Sayi(8)}}
    \cup {[ServisBakimID |-> Eksik, SozlesmeNumarasi |-> Sayi(7)],
          [ServisBakimID |-> Sayi(1), SozlesmeNumarasi |-> Eksik]}

\* Cells of the Montaj worksheet as get_all_values returns them.
MontajSayfaSatirlari ==
    {[ServisBakimID |-> s, SozlesmeNumarasi |-> n] :
        s \in {<<"1">>, <<"2">>, <<"3">>}, n \in {<<"7">>, <<"8">>}}
    \cup {[ServisBakimID |-> <<"x">>, SozlesmeNumarasi |-> <<"7">>],
          [ServisBakimID |-> <<"1">>, SozlesmeNumarasi |-> <<>>]}

\* The Servis Bakım ID values of a table.
ServisBakimIDleri(rows) == {rows[i].ServisBakimID : i \in DOMAIN rows}

\* The first row of a table with the given ID.
IlkSatir(rows, id) ==
    rows[CHOOSE i \in DOMAIN rows :
            /\ rows[i].ServisBakimID = id
            /\ \A j \in 1..(i - 1) : rows[j].ServisBakimID # id]

\* The last row of a table with the given ID.
SonSatirID(rows, id) ==
    rows[CHOOSE i \in DOMAIN rows :
            /\ rows[i].ServisBakimID = id
            /\ \A j \in (i + 1)..Len(rows) : rows[j].ServisBakimID # id]

\* The IDs of a set in ascending order.
RECURSIVE ArtanSira(_)
ArtanSira(ids) ==
    IF ids = {} THEN <<>>
    ELSE LET m == CHOOSE x \in ids : \A y \in ids : x <= y
         IN  <<m>> \o ArtanSira(ids \ {m})

\* read_montaj_raporu: rows without contract number dropped, then
\* groupby('Servis Bakım ID', as_index=False).first(): one row per ID in
\* ascending order, rows without ID left out.
read_montaj_raporu(rapor) ==
    LET df_filtered == SelectSeq(rapor, LAMBDA r : r.SozlesmeNumarasi # Eksik)
        sayili == SelectSeq(df_filtered, LAMBDA r : r.ServisBakimID # Eksik)
        duz == [i \in DOMAIN sayili |->
                   [ServisBakimID |-> sayili[i].ServisBakimID[1],
                    SozlesmeNumarasi |-> sayili[i].SozlesmeNumarasi[1]]]
        sira == ArtanSira(ServisBakimIDleri(duz))
    IN  [k \in DOMAIN sira |-> IlkSatir(duz, sira[k])]

\* read_montaj_from_sheets: both columns through pd.to_numeric(errors='coerce'),
\* dropna and astype('int64'); an empty table when the worksheet cannot be
\* read or holds no data row.
read_montaj_from_sheets(sayfa, okundu) ==
    IF ~okundu \/ sayfa = <<>> THEN <<>>
    ELSE LET idli == SelectSeq(sayfa, LAMBDA r : to_numeric(r.ServisBakimID) # Eksik)
             tam == SelectSeq(idli, LAMBDA r : to_numeric(r.SozlesmeNumarasi) # Eksik)
         IN  [i \in DOMAIN tam |->
                 [ServisBakimID |-> adet_int(to_numeric(tam[i].ServisBakimID)),
                  SozlesmeNumarasi |-> adet_int(to_numeric(tam[i].SozlesmeNumarasi))]]

\* drop_duplicates(subset=['Servis Bakım ID'], keep='first')
drop_duplicates_first(rows) ==
    LET kalan == {i \in DOMAIN rows :
                     \A j \in 1..(i - 1) : rows[j].ServisBakimID # rows[i].ServisBakimID}
    IN  [k \in 1..Cardinality(kalan) |->
            rows[CHOOSE i \in kalan : Cardinality({j \in kalan : j <= i}) = k]]

\* drop_duplicates(subset=['Servis Bakım ID'], keep='last')
drop_duplicates_last(rows) ==
    LET kalan == {i \in DOMAIN rows :
                     \A j \in (i + 1)..Len(rows) :
                         rows[j].ServisBakimID # rows[i].ServisBakimID}
    IN  [k \in 1..Cardinality(kalan) |->
            rows[CHOOSE i \in kalan : Cardinality({j \in kalan : j <= i}) = k]]

\* sort_values('Servis Bakım ID') on a table without repeated IDs.
montaj_sort_values(rows) ==
    LET sira == ArtanSira(ServisBakimIDleri(rows))
    IN  [k \in DOMAIN sira |-> IlkSatir(rows, sira[k])]

\* merge_and_update_data
merge_and_update_data(new_df, existing_df) ==
    IF existing_df = <<>> THEN new_df
    ELSE montaj_sort_values(drop_duplicates_last(existing_df \o new_df))

\* str() of an int64 cell.
SayiMetni(n) ==
    IF n < 10 THEN <<DigitChar(n)>>
    ELSE <<DigitChar(n \div 10), DigitChar(n % 10)>>

\* save_to_worksheet: the worksheet is cleared, then updated with the cells
\* as text unless the table is empty. An error is raised after logging; the
\* worksheet is then as it was, or cleared.
MontajYazmaSonuclari == {"ok", "acilamadi", "guncellenemedi"}

save_to_worksheet(sayfa, df, yazma) ==
    IF yazma = "acilamadi" THEN sayfa
    ELSE IF yazma = "guncellenemedi" \/ df = <<>> THEN <<>>
    ELSE [i \in DOMAIN df |->
             [ServisBakimID |-> SayiMetni(df[i].ServisBakimID),
              SozlesmeNumarasi |-> SayiMetni(df[i].SozlesmeNumarasi)]]

InitMontaj ==
    /\ pc = "giris"
    /\ MontajDisiBos
    /\ montaj_raporu \in SeqsUpTo(RaporSatirlari, MaxMontajRows)
    /\ montaj_sayfasi \in SeqsUpTo(MontajSayfaSatirlari, MaxMontajRows)
    /\ new_data = <<>>
    /\ existing_data = <<>>
    /\ final_data = <<>>

\* MontajProcessor.run_update
MontajRunUpdate ==
    /\ pc = "giris"
    /\ \E okundu \in BOOLEAN, yazma \in MontajYazmaSonuclari :
        /\ new_data' = read_montaj_raporu(montaj_raporu)
        /\ existing_data' = read_montaj_from_sheets(montaj_sayfasi, okundu)
        /\ final_data' = merge_and_update_data(new_data', existing_data')
        /\ montaj_sayfasi' = save_to_worksheet(montaj_sayfasi, final_data', yazma)
    /\ pc' = "bitti"
    /\ UNCHANGED <<montaj_raporu, montajDisi>>

NextMontaj == MontajRunUpdate

SpecMontaj == InitMontaj /\ [][NextMontaj]_vars

\* How many rows of a table carry the given ID.
IDSayisi(rows, id) == Cardinality({i \in DOMAIN rows : rows[i].ServisBakimID = id})

\* C22: the table merge_and_update_data returns has exactly one row per
\* Servis Bakım ID of the two tables: the new row for an ID the new table
\* holds, the existing row (the last one, should the sheet repeat the ID) for
\* an ID only the existing table holds.
C22_UpsertByServisBakimID ==
    pc = "bitti" =>
        /\ ServisBakimIDleri(final_data) =
               ServisBakimIDleri(new_data) \cup ServisBakimIDleri(existing_data)
        /\ \A id \in ServisBakimIDleri(final_data) :
            /\ IDSayisi(final_data, id) = 1
            /\ id \in ServisBakimIDleri(new_data)
                => IlkSatir(final_data, id) = SonSatirID(new_data, id)
            /\ id \notin ServisBakimIDleri(new_data)
                => IlkSatir(final_data, id) = SonSatirID(existing_data, id)

\* An ID in both tables with different contract numbers, and an ID only the
\* existing table holds.
C22_Witness ==
    /\ pc = "bitti"
    /\ \E id \in ServisBakimIDleri(new_data) \cap ServisBakimIDleri(existing_data) :
        SonSatirID(new_data, id) # SonSatirID(existing_data, id)
    /\ ServisBakimIDleri(existing_data) \ ServisBakimIDleri(new_data) # {}
    /\ Len(final_data) = 2

-----------------------------------------------------------------------------
(* OKC.py: excel_oku                                                         *)

MaxOkcRows == 2

MaxOkcSheetRows == 3

\* Invoice numbers, texts that are no numbers.
FaturaNumaralari == {<<"A">>, <<"B">>, <<"C">>}

\* Rows of the Excel file after pd.to_datetime: the invoice number and the
\* day of the invoice date, 0 for NaT.
OkcExcelSatirlari ==
    {[FaturaNumarasi |-> f, Tarih |-> t] : f \in FaturaNumaralari, t \in {0, 1, 2}}

\* clean_data_for_sheets on the date column: strftime, '' for NaT.
okc_tarih_metni(t) == IF t = 0 THEN <<>> ELSE strftime(t)

\* clean_data_for_sheets: every cell as text.
clean_data_for_sheets(df) ==
    [i \in DOMAIN df |->
        [FaturaNumarasi |-> df[i].FaturaNumarasi, Tarih |-> okc_tarih_metni(df[i].Tarih)]]

\* get_okc_data and the date conversion of the existing rows.
okc_mevcut_veri(sayfa) ==
    [i \in DOMAIN sayfa |->
        [FaturaNumarasi |-> sayfa[i].FaturaNumarasi, Tarih |-> to_datetime(sayfa[i].Tarih)]]

\* sort_values(by='Fatura Düzenlenme Tarihi', ascending=False): newest
\* first, NaT last.
RECURSIVE OkcInsert(_, _)
OkcInsert(sorted, r) ==
    IF sorted = <<>> THEN <<r>>
    ELSE IF r.Tarih # 0 /\ (Head(sorted).Tarih = 0 \/ Head(sorted).Tarih < r.Tarih)
         THEN <<r>> \o sorted
         ELSE <<Head(sorted)>> \o OkcInsert(Tail(sorted), r)

RECURSIVE okc_sort_values(_)
okc_sort_values(rows) ==
    IF rows = <<>> THEN <<>>
    ELSE OkcInsert(okc_sort_values(SubSeq(rows, 1, Len(rows) - 1)), rows[Len(rows)])

\* existing_invoices
existing_invoices(mevcut) == {mevcut[i].FaturaNumarasi : i \in DOMAIN mevcut}

\* truly_new_records
truly_new_records(yeni, mevcut) ==
    SelectSeq(yeni, LAMBDA r : r.FaturaNumarasi \notin existing_invoices(mevcut))

\* How update_okc_data can end: cleared and updated, or cleared and the
\* update raises.
OkcYazmaSonuclari == {"ok", "guncellenemedi"}

\* excel_oku from the file read to the worksheet update: what the OKC
\* worksheet holds afterwards.
excel_oku(sayfa, yeni, okundu, yazma) ==
    IF ~okundu THEN sayfa
    ELSE LET mevcut == okc_mevcut_veri(sayfa)
             yeniler == truly_new_records(yeni, mevcut)
             final_okc == IF mevcut # <<>> THEN yeniler \o mevcut ELSE yeni
         IN  IF mevcut # <<>> /\ yeniler = <<>> THEN sayfa
             ELSE IF yazma = "ok"
                 THEN clean_data_for_sheets(okc_sort_values(final_okc))
                 ELSE <<>>

\* No invoice number in two rows.
FaturaTekil(sayfa) ==
    \A i, j \in DOMAIN sayfa :
        sayfa[i].FaturaNumarasi = sayfa[j].FaturaNumarasi => i = j

\* Worksheets with unique invoice numbers, as the script writes them.
OkcSayfalari ==
    {clean_data_for_sheets(okc_sort_values(rows)) :
        rows \in {r \in SeqsUpTo(OkcExcelSatirlari, MaxOkcRows) : FaturaTekil(r)}}

InitOkc ==
    /\ pc = "giris"
    /\ OkcDisiBos
    /\ okc_sayfasi \in OkcSayfalari
    /\ yeni_veri = <<>>

\* One run of excel_oku on a chosen file.
ExcelOku ==
    /\ \E excel \in SeqsUpTo(OkcExcelSatirlari, MaxOkcRows),
          okundu \in BOOLEAN, yazma \in OkcYazmaSonuclari :
        /\ yeni_veri' = excel
        /\ okc_sayfasi' = excel_oku(okc_sayfasi, excel, okundu, yazma)
    /\ Len(okc_sayfasi') <= MaxOkcSheetRows
    /\ UNCHANGED <<pc, okcDisi>>

NextOkc == ExcelOku

SpecOkc == InitOkc /\ [][NextOkc]_vars

\* C23: a run of excel_oku on a worksheet with unique invoice numbers leaves
\* a worksheet with unique invoice numbers in which every row persisted
\* before the run is still present.
C23_NoDuplicateInvoices ==
    [][FaturaTekil(okc_sayfasi) =>
        /\ FaturaTekil(okc_sayfasi')
        /\ \A i \in DOMAIN okc_sayfasi :
            \E j \in DOMAIN okc_sayfasi' : okc_sayfasi'[j] = okc_sayfasi[i]]_vars

-----------------------------------------------------------------------------
(* SSH.py: the order of the table verileri_birlestir returns                 *)

\* Rows as excel_verisi_oku returns them, with service IDs of one and of two
\* digits.
SiraYeniKayitlar ==
    {Kayit(sid, <<"3">>, <<>>, <<"b">>) : sid \in {<<"2">>, <<"9">>, <<"1", "2">>}}

\* Rows as they stand in the worksheet.
SiraMevcutKayitlar ==
    {Kayit(sid, <<"3">>, durum, <<"a">>) :
        sid \in {<<"2">>, <<"1", "0">>, <<"1", "2">>}, durum \in {<<>>, <<"o", "k">>}}

InitSira ==
    /\ pc = "giris"
    /\ yeni_df \in Tablolar(SiraYeniKayitlar, {AllCols})
    /\ mevcut_df \in Tablolar(SiraMevcutKayitlar, {AllCols, AllCols \ {UrunID}})
    /\ son_df = Sonuc(BosDf)
    /\ ssh_sayfasi = BosDf
    /\ okuma = "yok"
    /\ orders = <<>>
    /\ bekleyen_sayfasi = <<>>
    /\ StokBos
    /\ EkBos

SpecSira == InitSira /\ [][NextMerge]_vars

\* The number a "Servis Bakım ID" cell stands for.
ServisBakimSayisi(r) == DigitsValue(Strip(r[ServisBakimID]), 0)

\* C24: the table verileri_birlestir returns is sorted by "Servis Bakım ID"
\* in descending numeric order, whichever path returned it.
C24_SortedDescendingNumeric ==
    pc = "cikis" =>
        /\ ~son_df.hata
        /\ \A i, j \in DOMAIN son_df.df.rows :
            i < j => ServisBakimSayisi(son_df.df.rows[i]) >= ServisBakimSayisi(son_df.df.rows[j])

-----------------------------------------------------------------------------
(* Irsaliye.py: merge_and_analyze_differences                                *)

MaxIrsaliyeRows == 2

\* The smallest difference that is reported.
FarkEsigi == 7

\* 'Esle' keys: date and document number as one text.
EsleAnahtarlari == {<<"a">>, <<"b">>}

\* Rows process_prosap_data returns: key and 'UPB Tutarı'.
ProsapSatirlari == {[Esle |-> e, UPBTutari |-> t] : e \in EsleAnahtarlari, t \in {3, 7, 9}}

\* Rows process_mikro_data returns: key and 'Vergili TUTAR'.
MikroSatirlari == {[Esle |-> e, VergiliTutar |-> t] : e \in EsleAnahtarlari, t \in {3, 7, 9}}

EsleSet(rows) == {rows[i].Esle : i \in DOMAIN rows}

\* The keys of a set in Python's string order.
RECURSIVE EsleSirasi(_)
EsleSirasi(keys) ==
    IF keys = {} THEN <<>>
    ELSE LET m == CHOOSE x \in keys : \A y \in keys : ~StrLess(y, x)
         IN  <<m>> \o EsleSirasi(keys \ {m})

\* The rows an outer merge makes for one key: every pairing of the left and
\* right rows with the key, NaN on the side that has none.
EsleSatirlari(sol, sag, e) ==
    LET l == SelectSeq(sol, LAMBDA r : r.Esle = e)
        r == SelectSeq(sag, LAMBDA s : s.Esle = e)
    IN  IF r = <<>>
            THEN [i \in DOMAIN l |->
                    [Esle |-> e, UPBTutari |-> Sayi(l[i].UPBTutari), VergiliTutar |-> Eksik]]
        ELSE IF l = <<>>
            THEN [j \in DOMAIN r |->
                    [Esle |-> e, UPBTutari |-> Eksik, VergiliTutar |-> Sayi(r[j].VergiliTutar)]]
        ELSE [k \in 1..(Len(l) * Len(r)) |->
                [Esle |-> e,
                 UPBTutari |-> Sayi(l[((k - 1) \div Len(r)) + 1].UPBTutari),
                 VergiliTutar |-> Sayi(r[((k - 1) % Len(r)) + 1].VergiliTutar)]]

RECURSIVE EsleBirlesim(_, _, _)
EsleBirlesim(sol, sag, sira) ==
    IF sira = <<>> THEN <<>>
    ELSE EsleSatirlari(sol, sag, Head(sira)) \o EsleBirlesim(sol, sag, Tail(sira))

\* pd.merge(prosap_df, mikro_df, left_on="Esle", right_on="Esle", how="outer")
merge_outer(sol, sag) ==
    EsleBirlesim(sol, sag, EsleSirasi(EsleSet(sol) \cup EsleSet(sag)))

Mutlak(n) == IF n < 0 THEN -n ELSE n

\* abs(merged_df["UPB Tutarı"] - merged_df["Vergili TUTAR"]) after
\* "Vergili TUTAR" went through fillna(0): NaN where 'UPB Tutarı' is NaN.
Fark(row) ==
    IF row.UPBTutari = Eksik THEN Eksik
    ELSE Sayi(Mutlak(row.UPBTutari[1] - adet_int(row.VergiliTutar)))

\* merged_df[merged_df["Fark"] >= 7]: a comparison with NaN is False.
FarkOnemli(row) == Fark(row) # Eksik /\ Fark(row)[1] >= FarkEsigi

\* merge_and_analyze_differences
merge_and_analyze_differences(prosap, mikro) ==
    LET merged_df == merge_outer(prosap, mikro)
        dolu == [i \in DOMAIN merged_df |->
                    [merged_df[i] EXCEPT !.VergiliTutar = Sayi(adet_int(merged_df[i].VergiliTutar))]]
    IN  SelectSeq(dolu, FarkOnemli)

InitIrsaliye ==
    /\ pc = "giris"
    /\ IrsaliyeDisiBos
    /\ prosap_df \in SeqsUpTo(ProsapSatirlari, MaxIrsaliyeRows)
    /\ mikro_df \in SeqsUpTo(MikroSatirlari, MaxIrsaliyeRows)
    /\ significant_diff = <<>>

\* differences_df = self.merge_and_analyze_differences(prosap_df, mikro_df)
MergeAndAnalyze ==
    /\ pc = "giris"
    /\ significant_diff' = merge_and_analyze_differences(prosap_df, mikro_df)
    /\ pc' = "bitti"
    /\ UNCHANGED <<prosap_df, mikro_df, irsaliyeDisi>>

NextIrsaliye == MergeAndAnalyze

SpecIrsaliye == InitIrsaliye /\ [][NextIrsaliye]_vars

\* C25: a key only one of the two tables holds, with an amount of at least 7
\* on that side, has a row in the differences output.
C25_OneSidedKeysSurfaced ==
    pc = "bitti" =>
        /\ \A i \in DOMAIN prosap_df :
            (prosap_df[i].Esle \notin EsleSet(mikro_df) /\ prosap_df[i].UPBTutari >= FarkEsigi)
            => prosap_df[i].Esle \in EsleSet(significant_diff)
        /\ \A j \in DOMAIN mikro_df :
            (mikro_df[j].Esle \notin EsleSet(prosap_df) /\ mikro_df[j].VergiliTutar >= FarkEsigi)
            => mikro_df[j].Esle \in EsleSet(significant_diff)

-----------------------------------------------------------------------------
(* SSH.py: the merge key of verileri_birlestir                               *)

\* The rows of both tables with their key columns trimmed, as the merge sees
\* them.
BirlesenSatirlar ==
    {StripKeys(yeni_df).rows[i] : i \in DOMAIN yeni_df.rows}
        \cup {StripKeys(mevcut_df).rows[i] : i \in DOMAIN mevcut_df.rows}

\* C26: two records, from either table, get the same merge key only if they
\* agree on all four key columns after trimming.
C26_MergeKeyInjective ==
    (pc = "cikis" /\ ~Empty(mevcut_df) /\ AnahtarlarTam) =>
        \A r1, r2 \in BirlesenSatirlar :
            BirlestirmeAnahtari(r1) = BirlestirmeAnahtari(r2)
                => \A c \in AnahtarSet : r1[c] = r2[c]


\* The call of get_connection is over and its with body had raised an error.
GovdeHataVerdi ==
    /\ cagri.islem = "get_connection"
    /\ CagriBitti
    /\ govde_hatasi.hata # "yok"

\* C27: an error raised inside the with body of get_connection reaches the
\* caller unchanged, no connection is attempted after it, and every
\* connection that was opened has been closed exactly once when the context
\* manager exits.
C27_BodyErrorPropagates ==
    (cagri.islem = "get_connection" /\ CagriBitti) =>
        /\ \A i \in DOMAIN baglantilar : baglantilar[i] = 1
        /\ govde_hatasi.hata # "yok" =>
            /\ cagri.durum = "raise"
            /\ cagri.hata = govde_hatasi.hata
            /\ Len(denemeler) = govde_hatasi.deneme


\* C28: the stock table has exactly one row per row of the master material
\* table, whatever keys the joined tables repeat.
C28_OneRowPerMasterRow ==
    ZincirTamam => Len(stok_df.df.rows) = Len(malzeme.rows)


\* verileri_birlestir(N, R) for the table R that verileri_birlestir(N, O)
\* returned: the next run over the same Excel file.
IkinciBirlestirme == verileri_birlestir(yeni_df, son_df.df)

-----------------------------------------------------------------------------
(* SAP_Kodu_Olustur.py: process_sap_data and save_split_files *)

\* most rows the stock query returns in the model
MaxSapRows == 3

\* SAP_CHUNK_SIZE of the settings in the model (the script's default is 270)
SapChunkSizes == {1, 2}

\* Material codes of the stock query: one with leading zeros, a longer one
\* with the same first ten characters, a plain one and one with a letter.
SapKodSifirli == <<"0", "0", "0", "0", "0", "0", "0", "0", "1", "2">>

SapKodUzun == SapKodSifirli \o <<"-", "1">>

SapKodDuz == <<"1", "0", "0", "0", "0", "0", "0", "0", "0", "1">>

SapKodHarfli == <<"a", "0", "0", "0", "0", "0", "0", "0", "0", "1">>

SapHamSatirlari ==
    {[kod |-> SapKodSifirli, ad |-> <<"b">>], [kod |-> SapKodUzun, ad |-> <<"a">>],
     [kod |-> SapKodDuz, ad |-> <<"a">>], [kod |-> SapKodHarfli, ad |-> <<"b">>]}

\* df.drop_duplicates(subset=['MALZEME_KODU_SHORT'], keep='first') on rows
\* whose code is already cut to its first ten characters
sap_drop_duplicates(rows) ==
    SelectSeq([i \in DOMAIN rows |-> [satir |-> rows[i], ilk |-> \A j \in 1..(i - 1) : rows[j].kod # rows[i].kod]],
              LAMBDA x : x.ilk)

\* sort_values(by='MALZEME ADI', ascending=True): rows with the same name keep
\* their order
RECURSIVE sap_sort_values(_)
sap_sort_values(rows) ==
    IF rows = <<>> THEN <<>>
    ELSE LET r == rows[Len(rows)]
             once == sap_sort_values(SubSeq(rows, 1, Len(rows) - 1))
             kucukler == SelectSeq(once, LAMBDA x : ~StrLess(r.ad, x.ad))
             buyukler == SelectSeq(once, LAMBDA x : StrLess(r.ad, x.ad))
         IN  kucukler \o <<r>> \o buyukler

\* SAPKoduAnalyzer.process_sap_data: the code cut to ten characters, one row
\* per code, MIKTAR 1, ordered by name.
process_sap_data(df) ==
    IF df = <<>> THEN df
    ELSE LET kisa == [i \in DOMAIN df |->
                         [kod |-> Ilk(df[i].kod, SapKoduUzunlugu), ad |-> df[i].ad]]
             df_unique == sap_drop_duplicates(kisa)
         IN  sap_sort_values([i \in DOMAIN df_unique |->
                 [kod |-> df_unique[i].satir.kod, miktar |-> 1,
                  ad |-> df_unique[i].satir.ad]])

\* The cell of a code in a written file: a number, or text (sayi = -1).
SayiHucre(n) == [sayi |-> n, metin |-> <<>>]

MetinHucre(t) == [sayi |-> -1, metin |-> t]

\* "try: chunk['MALZEME KODU'] = pd.to_numeric(chunk['MALZEME KODU']) except
\* (ValueError, TypeError): pass": the whole column becomes numeric, or, when
\* one code is not a number, the whole column stays text.
to_numeric_chunk(chunk) ==
    IF \A i \in DOMAIN chunk : DigitsValue(chunk[i].kod, 0) >= 0
        THEN [i \in DOMAIN chunk |->
                [kod |-> SayiHucre(DigitsValue(chunk[i].kod, 0)),
                 miktar |-> chunk[i].miktar, ad |-> chunk[i].ad]]
        ELSE [i \in DOMAIN chunk |->
                [kod |-> MetinHucre(chunk[i].kod),
                 miktar |-> chunk[i].miktar, ad |-> chunk[i].ad]]

Kucuk(a, b) == IF a < b THEN a ELSE b

\* len(range(0, total_rows, chunk_size))
DosyaSayisi(total_rows, chunk_size) == (total_rows + chunk_size - 1) \div chunk_size

\* df.iloc[i:i+chunk_size] for i = (file_number - 1) * chunk_size
iloc_chunk(df, file_number, chunk_size) ==
    SubSeq(df, (file_number - 1) * chunk_size + 1,
           Kucuk(file_number * chunk_size, Len(df)))

\* SAPKoduAnalyzer.save_split_files with the first "yazilan" files written:
\* sap<file_number>.xlsx is created or overwritten, and every other file of the
\* directory stays as it is.
save_split_files(klasor, df, chunk_size, yazilan) ==
    [n \in DOMAIN klasor \cup 1..yazilan |->
        IF n <= yazilan THEN to_numeric_chunk(iloc_chunk(df, n, chunk_size))
        ELSE klasor[n]]

InitSap ==
    /\ pc = "giris"
    /\ SapDisiBos
    /\ sap_klasoru = <<>>
    /\ processed_df = <<>>
    /\ sap_calisma = [durum |-> "yok", chunk_size |-> 0]

\* SAPKoduAnalyzer.run_analysis: the query, process_sap_data, the output
\* directory (kept when it exists), save_split_files. Writing a file can fail
\* (the file is open in Excel, the disk is full), which ends the run after the
\* files written so far.
RunAnalysis ==
    \E df \in SeqsUpTo(SapHamSatirlari, MaxSapRows), chunk_size \in SapChunkSizes :
        LET islenmis == process_sap_data(df)
            adet == DosyaSayisi(Len(islenmis), chunk_size)
        IN  /\ processed_df' = islenmis
            /\ IF islenmis = <<>>
                THEN /\ sap_calisma' = [durum |-> "bos", chunk_size |-> chunk_size]
                     /\ sap_klasoru' = sap_klasoru
                ELSE \E yazilan \in 0..adet :
                        /\ sap_klasoru' =
                               save_split_files(sap_klasoru, islenmis, chunk_size, yazilan)
                        /\ sap_calisma' =
                               [durum |-> IF yazilan = adet THEN "tamam" ELSE "hata",
                                chunk_size |-> chunk_size]
            /\ UNCHANGED <<pc, sapDisi>>

NextSap == RunAnalysis

SpecSap == InitSap /\ [][NextSap]_vars

\* The file row holds the table row: same name and quantity, and the code as
\* text or as its number.
AyniSatir(dosya_satiri, r) ==
    /\ dosya_satiri.ad = r.ad
    /\ dosya_satiri.miktar = r.miktar
    /\ \/ dosya_satiri.kod = MetinHucre(r.kod)
       \/ /\ DigitsValue(r.kod, 0) >= 0
          /\ dosya_satiri.kod = SayiHucre(DigitsValue(r.kod, 0))

\* C30: after save_split_files has completed, the sapN.xlsx files of the
\* output directory are numbered 1..ceil(rows/chunk), file N holds the N-th
\* run of at most sap_chunk_size rows of the current processed table in row
\* order, and so no file holds rows of an earlier run.
C30_FilesPartitionTable ==
    sap_calisma.durum = "tamam" =>
        LET c == sap_calisma.chunk_size
            adet == DosyaSayisi(Len(processed_df), c)
        IN  /\ DOMAIN sap_klasoru = 1..adet
            /\ \A n \in DOMAIN sap_klasoru :
                /\ Len(sap_klasoru[n]) <= c
                /\ Len(sap_klasoru[n]) = Len(iloc_chunk(processed_df, n, c))
                /\ \A i \in DOMAIN sap_klasoru[n] :
                    AyniSatir(sap_klasoru[n][i], processed_df[(n - 1) * c + i])

====
